---- MODULE Spec2Model ----
(***************************************************************************)
(* Host/iframe messaging: the IframeMessenger request/response protocol    *)
(* (src/host-iframe-manager.ts, lines 342-634) between a host page and an  *)
(* embedded guest document, over the window.postMessage transport.         *)
(***************************************************************************)
EXTENDS Integers, Naturals, Sequences, FiniteSets, TLC

(***************************************************************************)
(* Bounds of the model.                                                    *)
(***************************************************************************)
MaxSends == 2      \* calls of send() over a run
MaxDispatchSends == 1  \* calls of send() over a run of DispatchSpec or ForeignSpec
MaxFairSends == 1  \* calls of send() over a run of FairSpec
MaxRegs == 2       \* calls of on()/onAction()/off() over a run
MaxForeign == 1    \* envelopes posted by a window of a third origin
MaxNow == 1        \* milliseconds that pass over a run
MaxUpdates == 2    \* calls of updateContext over a run of UpdateSpec
MaxCrumbs == 3     \* calls of addBreadcrumb over a run of BreadcrumbSpec
MaxModalOps == 3   \* calls of openModal/closeModal over a run of ModalSpec
MaxBurst == 11     \* sequential updates at the start of a run of HistorySpec
MaxHistoryOps == 1 \* method calls after them over a run of HistorySpec
MaxSyncs == 2      \* calls of syncContext by the guest over a run of SyncSpec
MaxNavs == 2       \* calls of navigate over a run of NavigationSpec

(***************************************************************************)
(* The two execution contexts, their windows and origins.                  *)
(***************************************************************************)
\* the messenger HostIframeManager.createIframe constructs for its iframe
\* and the one the IframeApp of the guest document constructs
Peers == {"host", "guest"}

\* every messenger a document may construct: a guest document that
\* constructs a second IframeApp has a second messenger, "guest2"; a host
\* that calls createIframe for a second iframe, g2, has a second messenger,
\* "host2"
Messengers == Peers \cup {"guest2", "host2"}

NoWindow == "null"

Windows == {"hostWin", "guestWin"}

EvilOrigin == "https://evil.example"

\* window in which a messenger is constructed (its `window` global)
WindowOf(m) == IF m \in {"host", "host2"} THEN "hostWin" ELSE "guestWin"

\* origin of the document loaded in a window
OriginOf(w) == IF w = "hostWin" THEN "https://host.example" ELSE "https://guest.example"

\* constructor argument isHost
isHost(m) == m \in {"host", "host2"}

\* config.targetOrigin: the origin of the peer document
targetOrigin(m) == IF isHost(m) THEN OriginOf("guestWin") ELSE OriginOf("hostWin")

\* the `source` tag of the envelopes a messenger builds
SourceTag(m) == IF isHost(m) THEN "host" ELSE "iframe"

\* default of config.timeout
DefaultTimeout == 5000

\* values of config.timeout a caller passes (the first one is the default)
TimeoutChoices == {DefaultTimeout, 1000}

(***************************************************************************)
(* Vocabulary of the envelopes.                                            *)
(***************************************************************************)
Types == {"data"}

Actions == {"request", "status"}

DataValues == {[type |-> "user-info"]}

\* callbacks a caller hands to on()/onAction(); each returns its own value
Handlers == {"h1", "h2"}

\* what a handler returns when it is invoked
Result(h) == IF h = "h1" THEN [id |-> "123"] ELSE [id |-> "456"]

\* the payload of the reply sent when no handler is registered
NoHandlerError == [error |-> "No handler found"]

\* key of the handler map for a whole type: `${type}`
TypeKey(type) == type

\* key of the handler map for a specific action: `${type}:${action}`
ActionKey(type, action) == type \o ":" \o action

(***************************************************************************)
(* State.                                                                  *)
(***************************************************************************)
VARIABLES
  config,           \* [m -> [timeout]]: the messenger's configuration
  targetWindow,     \* [m -> window or NoWindow]
  pendingMessages,  \* [m -> set of message ids]: keys of the pending map
  timers,           \* [m -> set of message ids]: timeouts set and not cleared or fired
  messageHandlers,  \* [m -> [key -> handler]]: the handler map
  listeners,        \* [window -> set of <<m, function>>]: 'message' listeners
  channel,          \* message events posted and not yet dispatched
  promise,          \* [id -> state of the promise send() returned]
  settled,          \* [id -> what called resolve/reject on it, in order]
  sender,           \* [id -> the messenger whose send() returned the promise]
  nextId,           \* ids handed out by generateId so far, plus one
  calls,            \* every handler invocation so far
  destroyed,        \* [m -> destroy() has been called]
  regs,             \* number of registry calls so far
  forged,           \* every message event a document of a third origin posted
  context,          \* [m -> the Context of the ContextManager built on m]
  contextHistory,   \* [m -> sequence of snapshots, oldest first]
  now,              \* the value Date.now() returns
  appended,         \* [m -> every snapshot addToHistory pushed, in order]
  ops,              \* number of calls the applications made on the ContextManagers
  syncing,          \* [m -> ids of the state/request calls syncContext awaits]
  modalStack,       \* HostIframeManager.modalStack: ids of iframes, in push order
  modalResolve,     \* [m -> the request whose handleModalOpen promise the modalResolve of m's iframe settles]
  awaiting,         \* [m -> requests whose handler returned a promise not settled yet]
  lastOff           \* the last call of off() and the handler map it found

messengerVars == <<config, targetWindow, pendingMessages, timers, messageHandlers,
                   listeners, channel, promise, settled, sender, nextId, calls,
                   destroyed, regs, forged>>

storeVars == <<context, contextHistory, now, appended, ops, syncing>>

modalVars == <<modalStack, modalResolve, awaiting>>

appVars == <<storeVars, modalVars, lastOff>>

vars == <<messengerVars, appVars>>

(***************************************************************************)
(* Envelopes and the transport.                                            *)
(***************************************************************************)
\* the envelope built by send(); a request carries no responseId
SendPayload(m, id, type, action, data, requiresResponse) ==
  [id |-> id, type |-> type, action |-> action, data |-> data,
   timestamp |-> 0, requiresResponse |-> requiresResponse,
   source |-> SourceTag(m), targetOrigin |-> targetOrigin(m)]

\* the envelope built by respond(); a reply carries no requiresResponse
ResponsePayload(m, id, originalMessageId, data) ==
  [id |-> id, type |-> "response", action |-> "message_response",
   data |-> data, timestamp |-> 0, responseId |-> originalMessageId,
   source |-> SourceTag(m), targetOrigin |-> targetOrigin(m)]

\* postMessage throws when the messenger has no target window
TargetAvailable(m) == targetWindow[m] # NoWindow

\* targetWindow.postMessage(payload, targetOrigin): the browser queues a
\* message event on the target window, stamped with the sender's origin,
\* when the target document's origin is the one asked for
PostMessage(m, payload) ==
  IF OriginOf(targetWindow[m]) = payload.targetOrigin
  THEN {[payload |-> payload, origin |-> OriginOf(WindowOf(m)), to |-> targetWindow[m]]}
  ELSE {}

(***************************************************************************)
(* Promises returned by send().                                            *)
(***************************************************************************)
Pending == [state |-> "pending"]

\* resolve(value): settles a pending promise, no effect on a settled one
Resolve(p, value) ==
  IF p.state = "pending" THEN [state |-> "fulfilled", value |-> value] ELSE p

\* reject(error): settles a pending promise, no effect on a settled one
Reject(p, error) ==
  IF p.state = "pending" THEN [state |-> "rejected", error |-> error] ELSE p

\* an error message with the default timeout written into it
TimeoutErrorDefault(m) == "Message timeout after 5000ms"

\* new Error(`Message timeout after ${this.config.timeout}ms`)
TimeoutError(m) == "Message timeout after " \o ToString(config[m].timeout) \o "ms"

DestroyedError == "Messenger destroyed"

NoTargetError == "Target window not available"

(***************************************************************************)
(* Inbound dispatch: handleMessage and what it calls.                      *)
(***************************************************************************)
\* the function the constructor registers as 'message' listener
BoundListener(m) == <<m, "handleMessage.bind(this)">>

\* the function destroy() asks the window to remove
RemovedListener(m) == <<m, "handleMessage">>

\* the messenger's listener is invoked for a message event on its window
Hears(m, ev) == \E l \in listeners[ev.to] : l[1] = m

\* a handleMessage without the origin check
OriginAuthorizedAny(m, ev) == TRUE

\* event.origin === this.config.targetOrigin
OriginAuthorized(m, ev) == ev.origin = targetOrigin(m)

\* a check of the fields that accepts any source
isValidPayloadAnySource(payload) ==
  {"id", "type", "action", "timestamp", "source"} \subseteq DOMAIN payload

\* a field that is present in an envelope of the model has its declared type
isValidPayload(payload) ==
  /\ {"id", "type", "action", "timestamp", "source"} \subseteq DOMAIN payload
  /\ payload.source \in {"host", "iframe"}

\* the event passes both checks at the top of handleMessage
Accepts(m, ev) ==
  /\ Hears(m, ev)
  /\ OriginAuthorized(m, ev)
  /\ isValidPayload(ev.payload)

\* payload.type === 'response' && payload.responseId
IsResponse(payload) == payload.type = "response" /\ "responseId" \in DOMAIN payload

\* payload.requiresResponse is truthy
RequiresResponse(payload) ==
  "requiresResponse" \in DOMAIN payload /\ payload.requiresResponse

NoKey == "<none>"

\* a lookup that tries the general type handler first
SelectedKeyTypeFirst(m, payload) ==
  IF TypeKey(payload.type) \in DOMAIN messageHandlers[m]
  THEN TypeKey(payload.type)
  ELSE IF ActionKey(payload.type, payload.action) \in DOMAIN messageHandlers[m]
       THEN ActionKey(payload.type, payload.action)
       ELSE "<none>"

\* the key handleIncomingMessage finds a handler under: the specific action
\* first, the general type second
SelectedKey(m, payload) ==
  IF ActionKey(payload.type, payload.action) \in DOMAIN messageHandlers[m]
  THEN ActionKey(payload.type, payload.action)
  ELSE IF TypeKey(payload.type) \in DOMAIN messageHandlers[m]
       THEN TypeKey(payload.type)
       ELSE NoKey

\* a reply that echoes the data of the request
ReplyDataEcho(m, payload) == payload.data

\* the data handleIncomingMessage passes to respond()
ReplyData(m, payload) ==
  IF SelectedKey(m, payload) = NoKey
  THEN NoHandlerError
  ELSE Result(messageHandlers[m][SelectedKey(m, payload)])

\* a handleResponse that resolves without looking for the pending entry
SettlersUnchecked(ev) ==
  {m \in Messengers : Accepts(m, ev) /\ IsResponse(ev.payload)}

\* messengers whose handleResponse finds the pending entry of this reply
Settlers(ev) ==
  {m \in Messengers : /\ Accepts(m, ev)
                      /\ IsResponse(ev.payload)
                      /\ ev.payload.responseId \in pendingMessages[m]}

\* messengers whose handleIncomingMessage invokes a handler for this event
Invokers(ev) ==
  {m \in Messengers : /\ Accepts(m, ev)
                      /\ ~IsResponse(ev.payload)
                      /\ SelectedKey(m, ev.payload) # NoKey}

\* handlers that all return
FailsNever(m, payload) == FALSE

\* the handler found for the envelope throws, or the promise it returns is
\* rejected: `await handler(payload)` throws and handleIncomingMessage ends
\* there
Fails(m, payload) ==
  /\ SelectedKey(m, payload) # NoKey
  /\ messageHandlers[m][SelectedKey(m, payload)] = "failing"

\* messengers whose handleIncomingMessage calls respond() for this event
Responders(ev) ==
  {m \in Messengers : /\ Accepts(m, ev)
                      /\ ~IsResponse(ev.payload)
                      /\ RequiresResponse(ev.payload)
                      /\ ~Fails(m, ev.payload)}

\* listeners of one window run in the order they were added
ListenerRank(m) ==
  IF m = "host" THEN 0 ELSE IF m = "guest" THEN 1 ELSE IF m = "guest2" THEN 2 ELSE 3

\* the id generateId hands to the reply of a responder
ReplyId(m, ev) ==
  nextId + Cardinality({r \in Responders(ev) : ListenerRank(r) < ListenerRank(m)})

\* the message events the responders post
Replies(ev) ==
  UNION {PostMessage(m, ResponsePayload(m, ReplyId(m, ev), ev.payload.id,
                                        ReplyData(m, ev.payload)))
         : m \in {r \in Responders(ev) : TargetAvailable(r)}}

\* the record kept of one handler invocation: who invoked which handler,
\* found under which key, for which envelope, with which keys registered
Call(m, payload) ==
  [messenger |-> m, key |-> SelectedKey(m, payload),
   handler |-> messageHandlers[m][SelectedKey(m, payload)],
   message |-> payload.id, type |-> payload.type, action |-> payload.action,
   registered |-> DOMAIN messageHandlers[m]]

(***************************************************************************)
(* Initial state: both messengers constructed, nothing registered or sent. *)
(***************************************************************************)
NoHandlers == [k \in {} |-> "h1"]

NoPromises == [i \in {} |-> Pending]

\* the value of a promise that resolves without a value
Undefined == [undefined |-> TRUE]

\* ContextManager.maxHistorySize
maxHistorySize == 10

\* id of the Context: config.id of the iframe on the host, generateContextId
\* in the guest document
ContextId(m) == IF m = "host" THEN "g1" ELSE IF m = "host2" THEN "g2" ELSE "ctx_" \o m

\* the Context the constructor of ContextManager builds; the host passes
\* the id of the iframe and the path of its src
InitialContext(m) ==
  [id |-> ContextId(m),
   route |-> IF isHost(m) THEN "/app" ELSE "/",
   navigation |-> [currentRoute |-> "/"],
   app |-> [environment |-> "development"],
   createdAt |-> 0,
   updatedAt |-> 0]

\* no call of off() yet
NoOff == [called |-> FALSE]

\* the state of the ContextManagers and of the HostIframeManager after
\* construction
AppInit ==
  /\ context = [m \in Messengers |-> InitialContext(m)]
  /\ contextHistory = [m \in Messengers |-> <<>>]
  /\ now = 0
  /\ appended = [m \in Messengers |-> <<>>]
  /\ ops = 0
  /\ syncing = [m \in Messengers |-> {}]
  /\ modalStack = <<>>
  /\ modalResolve = [m \in Messengers |-> {}]
  /\ awaiting = [m \in Messengers |-> {}]
  /\ lastOff = NoOff

\* the state once the messengers in `constructed` are constructed and the
\* handler maps are as given: a guest messenger targets window.parent, a
\* host messenger has no target window until the iframe has loaded
InitWith(constructed, handlers) ==
  /\ AppInit
  /\ config \in [Messengers -> [timeout : TimeoutChoices, maxRetries : {0, 3}]]
  /\ \A m \in Messengers \ Peers : config[m].timeout = DefaultTimeout
  /\ targetWindow = [m \in Messengers |->
                       IF m \in constructed /\ ~isHost(m) THEN "hostWin" ELSE NoWindow]
  /\ pendingMessages = [m \in Messengers |-> {}]
  /\ timers = [m \in Messengers |-> {}]
  /\ messageHandlers = handlers
  /\ listeners = [w \in Windows |->
                    {BoundListener(m) : m \in {x \in constructed : WindowOf(x) = w}}]
  /\ channel = {}
  /\ promise = NoPromises
  /\ settled = [i \in {} |-> <<>>]
  /\ sender = [i \in {} |-> "host"]
  /\ nextId = 1
  /\ calls = {}
  /\ destroyed = [m \in Messengers |-> FALSE]
  /\ regs = 0
  /\ forged = {}

\* maxRetries is left to its default, 3
Init ==
  /\ InitWith(Peers, [m \in Messengers |-> NoHandlers])
  /\ \A m \in Messengers : config[m].maxRetries = 3

(***************************************************************************)
(* send / sendWithResponse.                                                *)
(***************************************************************************)
\* a send that stores a pending entry whether or not a response is required
RegisteredBySendAlways(m, id, requiresResponse) == {id}

\* sendWithResponse stores the pending entry and its timeout before it
\* calls postMessage; send without a response stores nothing
RegisteredBySend(m, id, requiresResponse) ==
  IF requiresResponse THEN {id} ELSE {}

\* a send that posts its envelope a second time
PostedBySendTwice(m, payload) ==
  IF TargetAvailable(m)
  THEN PostMessage(m, payload) \cup PostMessage(m, [payload EXCEPT !.timestamp = @ + 1])
  ELSE {}

\* a send that swallows the exception of postMessage
PromiseOfSendSilent(m, requiresResponse) ==
  IF requiresResponse THEN Pending ELSE Resolve(Pending, Undefined)

\* the promise send() returns, as it is when send() has run
PromiseOfSend(m, requiresResponse) ==
  IF ~TargetAvailable(m) THEN Reject(Pending, NoTargetError)
  ELSE IF requiresResponse THEN Pending
  ELSE Resolve(Pending, Undefined)

\* what has settled that promise when send() has run: the exception of
\* postMessage, the return of send() without a response, or nothing yet
SettledBySend(m, requiresResponse) ==
  IF ~TargetAvailable(m) THEN <<"throw">>
  ELSE IF requiresResponse THEN <<>>
  ELSE <<"return">>

\* the message events send() posts
PostedBySend(m, payload) ==
  IF TargetAvailable(m) THEN PostMessage(m, payload) ELSE {}

Send(m, type, action, data, requiresResponse) ==
  /\ Cardinality(DOMAIN promise) < MaxSends
  /\ LET id == nextId
         payload == SendPayload(m, id, type, action, data, requiresResponse)
         pr == PromiseOfSend(m, requiresResponse)
     IN /\ nextId' = nextId + 1
        /\ pendingMessages' = [pendingMessages EXCEPT
                                 ![m] = @ \cup RegisteredBySend(m, id, requiresResponse)]
        /\ timers' = [timers EXCEPT
                        ![m] = @ \cup RegisteredBySend(m, id, requiresResponse)]
        /\ channel' = channel \cup PostedBySend(m, payload)
        /\ promise' = (id :> pr) @@ promise
        /\ settled' = (id :> SettledBySend(m, requiresResponse)) @@ settled
        /\ sender' = (id :> m) @@ sender
  /\ UNCHANGED <<config, targetWindow, messageHandlers, listeners, calls,
                 destroyed, regs, forged>>

(***************************************************************************)
(* The timeout callback of sendWithResponse.                               *)
(***************************************************************************)
TimeoutFires(m, id) ==
  /\ id \in timers[m]
  /\ timers' = [timers EXCEPT ![m] = @ \ {id}]
  /\ pendingMessages' = [pendingMessages EXCEPT ![m] = @ \ {id}]
  /\ promise' = [promise EXCEPT ![id] = Reject(@, TimeoutError(m))]
  /\ settled' = [settled EXCEPT ![id] = Append(@, "timeout")]
  /\ UNCHANGED <<config, targetWindow, messageHandlers, listeners, channel,
                 sender, nextId, calls, destroyed, regs, forged>>
  /\ UNCHANGED appVars

(***************************************************************************)
(* handleMessage, for every listener of the window the event is for.       *)
(***************************************************************************)
\* a handleResponse that clears the pending map
PendingAfterResponseCleared(m, ev) ==
  IF m \in Settlers(ev) THEN {} ELSE pendingMessages[m]

\* handleResponse: clearTimeout and delete of the pending entry
PendingAfterResponse(m, ev) ==
  IF m \in Settlers(ev) THEN pendingMessages[m] \ {ev.payload.responseId}
  ELSE pendingMessages[m]

\* a handleResponse that leaves the timeout running
TimersAfterResponseKept(m, ev) == timers[m]

TimersAfterResponse(m, ev) ==
  IF m \in Settlers(ev) THEN timers[m] \ {ev.payload.responseId}
  ELSE timers[m]

Deliver(ev) ==
  /\ ev \in channel
  /\ channel' = (channel \ {ev}) \cup Replies(ev)
  /\ nextId' = nextId + Cardinality(Responders(ev))
  /\ calls' = calls \cup {Call(m, ev.payload) : m \in Invokers(ev)}
  /\ pendingMessages' = [m \in Messengers |-> PendingAfterResponse(m, ev)]
  /\ timers' = [m \in Messengers |-> TimersAfterResponse(m, ev)]
  /\ promise' = [i \in DOMAIN promise |->
                   IF Settlers(ev) # {} /\ i = ev.payload.responseId
                   THEN Resolve(promise[i], ev.payload.data) ELSE promise[i]]
  /\ settled' = [i \in DOMAIN settled |->
                   IF Settlers(ev) # {} /\ i = ev.payload.responseId
                   THEN Append(settled[i], "reply") ELSE settled[i]]
  /\ UNCHANGED <<config, targetWindow, messageHandlers, listeners, sender,
                 destroyed, regs, forged>>

(***************************************************************************)
(* destroy.                                                                *)
(***************************************************************************)
\* window.removeEventListener('message', this.handleMessage)
ListenersAfterDestroy(m, w) ==
  IF w = WindowOf(m) THEN listeners[w] \ {RemovedListener(m)} ELSE listeners[w]

\* a destroy that leaves the timeouts running
TimersAfterDestroyKept(m) == timers[m]

\* clearTimeout for each entry of the pending map
TimersAfterDestroy(m) == timers[m] \ pendingMessages[m]

Destroy(m) ==
  /\ listeners' = [w \in Windows |-> ListenersAfterDestroy(m, w)]
  /\ timers' = [timers EXCEPT ![m] = TimersAfterDestroy(m)]
  /\ promise' = [i \in DOMAIN promise |->
                   IF i \in pendingMessages[m]
                   THEN Reject(promise[i], DestroyedError) ELSE promise[i]]
  /\ settled' = [i \in DOMAIN settled |->
                   IF i \in pendingMessages[m]
                   THEN Append(settled[i], "destroy") ELSE settled[i]]
  /\ pendingMessages' = [pendingMessages EXCEPT ![m] = {}]
  /\ messageHandlers' = [messageHandlers EXCEPT ![m] = NoHandlers]
  /\ destroyed' = [destroyed EXCEPT ![m] = TRUE]
  /\ UNCHANGED <<config, targetWindow, channel, sender, nextId, calls, regs,
                 forged>>
  /\ UNCHANGED appVars

(***************************************************************************)
(* setTargetWindow, on, onAction, off.                                     *)
(***************************************************************************)
\* the document of iframe g2 is not part of the model: the messenger bound
\* to g2 stays without a target window
SetTargetWindow(m) ==
  /\ targetWindow' = IF m = "host" THEN [targetWindow EXCEPT ![m] = "guestWin"]
                     ELSE targetWindow
  /\ UNCHANGED <<config, pendingMessages, timers, messageHandlers, listeners,
                 channel, promise, settled, sender, nextId, calls,
                 destroyed, regs, forged>>
  /\ UNCHANGED appVars

\* a Map.set that keeps the handler a key already has
MapSetKept(map, key, handler) ==
  [k \in DOMAIN map \cup {key} |-> IF k \in DOMAIN map THEN map[k] ELSE handler]

\* Map.set: a key holds one handler, the last one set
MapSet(map, key, handler) ==
  [k \in DOMAIN map \cup {key} |-> IF k = key THEN handler ELSE map[k]]

\* Map.delete
MapDelete(map, key) == [k \in DOMAIN map \ {key} |-> map[k]]

\* off() called without an action
NoAction == ""

\* an off() that removes the handler of the whole type whatever the action
OffKeyTypeOnly(type, action) == TypeKey(type)

\* const key = action ? `${type}:${action}` : type
OffKey(type, action) ==
  IF action # NoAction THEN ActionKey(type, action) ELSE TypeKey(type)

Registry(m, newMap) ==
  /\ regs < MaxRegs
  /\ regs' = regs + 1
  /\ messageHandlers' = [messageHandlers EXCEPT ![m] = newMap]
  /\ UNCHANGED <<config, targetWindow, pendingMessages, timers, listeners,
                 channel, promise, settled, sender, nextId, calls,
                 destroyed, forged>>

On(m, type, handler) ==
  Registry(m, MapSet(messageHandlers[m], TypeKey(type), handler))

OnAction(m, type, action, handler) ==
  Registry(m, MapSet(messageHandlers[m], ActionKey(type, action), handler))

Off(m, type, action) ==
  Registry(m, MapDelete(messageHandlers[m], OffKey(type, action)))

(***************************************************************************)
(* The handlers the applications register at construction.                 *)
(***************************************************************************)
\* ContextManager.setupMessageHandlers
setupMessageHandlers ==
  (ActionKey("state", "request") :> "ContextManager.request") @@
  (ActionKey("state", "update") :> "ContextManager.update") @@
  (ActionKey("state", "sync") :> "ContextManager.sync")

\* HostIframeManager.setupIframeHandlers
setupIframeHandlers ==
  (ActionKey("navigation", "navigate_to") :> "handleNavigation") @@
  (ActionKey("navigation", "go_back") :> "handleGoBack") @@
  (ActionKey("ui", "modal_open") :> "handleModalOpen") @@
  (ActionKey("ui", "modal_close") :> "handleModalClose") @@
  (ActionKey("state", "update") :> "HostIframeManager.update") @@
  (TypeKey("error") :> "HostIframeManager.error")

\* IframeApp.setupDefaultHandlers
setupDefaultHandlers ==
  (ActionKey("ui", "focus") :> "IframeApp.focus") @@
  (ActionKey("ui", "blur") :> "IframeApp.blur") @@
  (ActionKey("ui", "resize") :> "IframeApp.resize")

\* the handler map of a messenger once its application is constructed: the
\* ContextManager registers first, a later set of the same key replaces it
ConstructedHandlers(m) ==
  IF isHost(m) THEN setupIframeHandlers @@ setupMessageHandlers
  ELSE setupDefaultHandlers @@ setupMessageHandlers

\* createIframe and new IframeApp have run; no timeout is configured
ConstructedInit ==
  /\ InitWith(Peers, [m \in Messengers |->
                        IF m \in Peers THEN ConstructedHandlers(m) ELSE NoHandlers])
  /\ \A m \in Messengers : config[m].timeout = DefaultTimeout /\ config[m].maxRetries = 3

(***************************************************************************)
(* A document of a third origin posts envelopes of its own making to       *)
(* either window.                                                          *)
(***************************************************************************)
\* the messenger a window expects envelopes from
PeerOf(w) == IF w = "hostWin" THEN "guest" ELSE "host"

\* envelopes made to look like the peer's: a request that requires a reply,
\* and a reply to each request sent so far
ForgedPayloads(w) ==
  {SendPayload(PeerOf(w), 0, "data", "request", data, TRUE) : data \in DataValues}
  \cup
  {ResponsePayload(PeerOf(w), 0, i, Result("h2")) : i \in DOMAIN promise}

ForeignPost(w, payload) ==
  /\ Cardinality(forged) < MaxForeign
  /\ forged' = forged \cup {[payload |-> payload, origin |-> EvilOrigin, to |-> w]}
  /\ channel' = channel \cup {[payload |-> payload, origin |-> EvilOrigin, to |-> w]}
  /\ UNCHANGED <<config, targetWindow, pendingMessages, timers, messageHandlers,
                 listeners, promise, settled, sender, nextId, calls,
                 destroyed, regs>>
  /\ UNCHANGED appVars

(***************************************************************************)
(* ContextManager: the Context, its history and the merge of updates.      *)
(* An array that is written in place (the breadcrumbs) carries a reference: *)
(* every object that holds the reference sees what is written.              *)
(***************************************************************************)
\* a value is truthy: the values of the model other than undefined are
\* objects
Truthy(v) == v # Undefined

\* v[k], undefined when the object has no such property
Field(v, k) == IF k \in DOMAIN v /\ v # Undefined THEN v[k] ELSE Undefined

\* { ...v }: undefined spreads to no property
Spread(v) == IF v = Undefined THEN [k \in {} |-> Undefined] ELSE v

\* a merge that also merges the properties of `app` one level down
MergedDeep(ctx, updates) ==
  LET flat == ("updatedAt" :> now) @@ Spread(updates) @@ ctx
  IN IF "app" \in DOMAIN Spread(updates) /\ "app" \in DOMAIN ctx
     THEN [flat EXCEPT !.app = updates.app @@ ctx.app]
     ELSE flat

\* { ...this.context, ...updates, updatedAt: Date.now() }
Merged(ctx, updates) == ("updatedAt" :> now) @@ Spread(updates) @@ ctx

\* a history that is never trimmed
PushedUntrimmed(history, ctx) == Append(history, ctx)

\* a history that drops the newest snapshot when it is full
PushedDropNewest(history, ctx) ==
  IF Len(history) + 1 > maxHistorySize THEN history ELSE Append(history, ctx)

\* addToHistory: push, then shift when the length exceeds maxHistorySize
Pushed(history, ctx) ==
  IF Len(history) + 1 > maxHistorySize
  THEN Tail(Append(history, ctx))
  ELSE Append(history, ctx)

\* the Contexts and histories of all ContextManagers
Store == [context |-> context, contextHistory |-> contextHistory, appended |-> appended]

\* updateContext up to its send: the snapshot { ...this.context } is pushed,
\* then the Context is replaced by the merge
updateContext(st, m, updates) ==
  [context |-> [st.context EXCEPT ![m] = Merged(@, updates)],
   contextHistory |-> [st.contextHistory EXCEPT ![m] = Pushed(@, st.context[m])],
   appended |-> [st.appended EXCEPT ![m] = Append(@, st.context[m])]]

\* the merge of syncContext: no snapshot is pushed
syncContext(st, m, remoteContext) ==
  [st EXCEPT !.context[m] = Merged(@, remoteContext)]

\* the `updates` updateNavigation passes to updateContext
updateNavigation(ctx, navigation) ==
  [navigation |-> Spread(navigation) @@ ctx.navigation]

\* an array object
Array(ref, items) == [ref |-> ref, items |-> items]

\* this.context.navigation.breadcrumbs is an array
HasBreadcrumbs(ctx) ==
  /\ "navigation" \in DOMAIN ctx
  /\ "breadcrumbs" \in DOMAIN ctx.navigation
  /\ "ref" \in DOMAIN ctx.navigation.breadcrumbs

\* an object as it is once the array `ref` has been written in place
Rewritten(ctx, ref, items) ==
  IF HasBreadcrumbs(ctx) /\ ctx.navigation.breadcrumbs.ref = ref
  THEN [ctx EXCEPT !.navigation.breadcrumbs.items = items]
  ELSE ctx

\* push/splice on the array `ref`: the Context and every snapshot that
\* holds the array sees its new items
InPlace(st, ref, items) ==
  [context |-> [m \in Messengers |-> Rewritten(st.context[m], ref, items)],
   contextHistory |-> [m \in Messengers |->
      [i \in 1..Len(st.contextHistory[m]) |-> Rewritten(st.contextHistory[m][i], ref, items)]],
   appended |-> [m \in Messengers |->
      [i \in 1..Len(st.appended[m]) |-> Rewritten(st.appended[m][i], ref, items)]]]

\* event.data: the structured clone of the data sent; an array in it is a
\* new object
Received(payload) ==
  IF HasBreadcrumbs(payload.data)
  THEN [payload.data EXCEPT !.navigation.breadcrumbs.ref = <<"message", payload.id>>]
  ELSE payload.data

Commit(st) ==
  /\ context' = st.context
  /\ contextHistory' = st.contextHistory
  /\ appended' = st.appended

(***************************************************************************)
(* The envelopes one call or one handler sends, in order.                  *)
(***************************************************************************)
\* a call of send()
Message(type, action, data, requiresResponse) ==
  [kind |-> "send", type |-> type, action |-> action, data |-> data,
   requiresResponse |-> requiresResponse]

\* a call of respond()
Response(originalMessageId, data) ==
  [kind |-> "respond", to |-> originalMessageId, data |-> data,
   requiresResponse |-> FALSE]

\* the calls of send() a method makes: it awaits each one, so the exception
\* of the first ends it
Attempted(m, out) ==
  IF TargetAvailable(m) \/ out = <<>> THEN out ELSE SubSeq(out, 1, 1)

\* the calls of send()/respond() in `out` run one after the other on
\* messenger m, each with the next id of generateId, on top of the given
\* channel, pending table, timeouts and promises
Emit(m, out, chan, pend, tim, prom, sett) ==
  LET id(k) == nextId + k - 1
      sends == {k \in 1..Len(out) : out[k].kind = "send"}
      registered == UNION {RegisteredBySend(m, id(k), out[k].requiresResponse) : k \in sends}
      payload(k) ==
        IF out[k].kind = "send"
        THEN SendPayload(m, id(k), out[k].type, out[k].action, out[k].data,
                         out[k].requiresResponse)
        ELSE ResponsePayload(m, id(k), out[k].to, out[k].data)
  IN /\ nextId' = nextId + Len(out)
     /\ pendingMessages' = [pend EXCEPT ![m] = @ \cup registered]
     /\ timers' = [tim EXCEPT ![m] = @ \cup registered]
     /\ channel' = chan \cup UNION {PostedBySend(m, payload(k)) : k \in 1..Len(out)}
     /\ promise' = [i \in {id(k) : k \in sends} |->
                      PromiseOfSend(m, out[i - nextId + 1].requiresResponse)] @@ prom
     /\ settled' = [i \in {id(k) : k \in sends} |->
                      SettledBySend(m, out[i - nextId + 1].requiresResponse)] @@ sett
     /\ sender' = [i \in {id(k) : k \in sends} |-> m] @@ sender

\* ids of the state/request calls among them: syncContext awaits these
SyncRequests(out) ==
  {nextId + k - 1 : k \in {j \in 1..Len(out) :
      /\ out[j].kind = "send"
      /\ out[j].type = "state" /\ out[j].action = "request"
      /\ out[j].requiresResponse}}

(***************************************************************************)
(* The handlers of the applications, as handleIncomingMessage runs them.   *)
(***************************************************************************)
\* the handler handleIncomingMessage finds for the envelope, if any
Handler(m, payload) ==
  IF SelectedKey(m, payload) = NoKey THEN NoKey
  ELSE messageHandlers[m][SelectedKey(m, payload)]

\* handlers none of which notifies the peer
NotifiesPeerNever(h) == FALSE

\* handlers that all notify the peer
NotifiesPeerAlways(h) == TRUE

\* the handler passes notify=true to updateContext: the handler of
\* ContextManager.setupMessageHandlers leaves the parameter to its default
NotifiesPeer(h) == h = "ContextManager.update"

\* the `updates` handleNavigation passes to updateContext
NavigationUpdates(m, data) ==
  updateNavigation(context[m],
    [currentRoute |-> Field(data, "route"),
     previousRoute |-> Field(data, "previousRoute"),
     params |-> Field(data, "params"),
     state |-> Field(data, "state")])

\* the Contexts and histories once the handler has run
StoreAfter(m, payload) ==
  LET h == Handler(m, payload)
      data == Received(payload)
  IN CASE h \in {"ContextManager.update", "HostIframeManager.update"} ->
            updateContext(Store, m, data)
       [] h = "ContextManager.sync" /\ Truthy(data) -> syncContext(Store, m, data)
       [] h = "handleNavigation" /\ ~Truthy(Field(data, "external")) ->
            updateContext(Store, m, NavigationUpdates(m, data))
       [] OTHER -> Store

\* the calls of send() the handler makes
SentByHandler(m, payload) ==
  LET h == Handler(m, payload)
      data == Received(payload)
  IN CASE h \in {"ContextManager.update", "HostIframeManager.update"} /\ NotifiesPeer(h) ->
            <<Message("state", "update", data, FALSE)>>
       [] h = "ContextManager.sync" /\ ~Truthy(data) ->
            <<Message("state", "request", Undefined, TRUE)>>
       [] h = "handleNavigation" /\ ~Truthy(Field(data, "external")) ->
            <<Message("state", "update", NavigationUpdates(m, data), FALSE)>>
       [] OTHER -> <<>>

\* the value the handler returns; handleModalOpen returns a promise that
\* is not settled when it returns
Returned(m, payload) ==
  LET h == Handler(m, payload)
  IN CASE h \in Handlers -> Result(h)
       [] h = "ContextManager.request" -> context[m]
       [] OTHER -> Undefined

\* the request a modal_close resolves: the one whose resolve function is
\* in iframe.modalResolve
ResolvedByClose(m, payload) ==
  IF Handler(m, payload) = "handleModalClose" THEN modalResolve[m] ELSE {}

\* handleIncomingMessage calls respond() once the await of the handler's
\* value is over, when the request requires a response: first in the
\* invocation a modal_close resumes, then in the invocation of this envelope
Responses(m, payload) ==
  LET resumed == {a \in awaiting[m] : a.id \in ResolvedByClose(m, payload)}
      first == IF \E a \in resumed : a.requiresResponse
               THEN <<Response((CHOOSE a \in resumed : TRUE).id, payload.data)>>
               ELSE <<>>
      own == IF RequiresResponse(payload) /\ Handler(m, payload) # "handleModalOpen"
             THEN <<Response(payload.id,
                             IF Handler(m, payload) = NoKey THEN NoHandlerError
                             ELSE Returned(m, payload))>>
             ELSE <<>>
  IN first \o own

\* removal of the first occurrence of an id from the modal stack
SpliceFirst(stack, id) ==
  IF \E i \in 1..Len(stack) : stack[i] = id
  THEN LET index == CHOOSE i \in 1..Len(stack) :
                       stack[i] = id /\ \A j \in 1..(i - 1) : stack[j] # id
       IN SubSeq(stack, 1, index - 1) \o SubSeq(stack, index + 1, Len(stack))
  ELSE stack

\* a slot that keeps the resolve function it already holds
SlotAfterOpenKept(slot, id) == IF slot = {} THEN {id} ELSE slot

\* (iframe as any).modalResolve = resolve: the one slot of the iframe now
\* holds the resolve function of this open, whatever it held
SlotAfterOpen(slot, id) == {id}

\* handleModalOpen and handleModalClose on the HostIframeManager
ModalAfter(m, payload) ==
  LET h == Handler(m, payload)
      waiting == [id |-> payload.id, requiresResponse |-> RequiresResponse(payload)]
  IN CASE h = "handleModalOpen" ->
            /\ modalStack' = Append(modalStack, ContextId(m))
            /\ modalResolve' = [modalResolve EXCEPT ![m] = SlotAfterOpen(@, payload.id)]
            /\ awaiting' = [awaiting EXCEPT ![m] = @ \cup {waiting}]
       [] h = "handleModalClose" ->
            /\ modalStack' = SpliceFirst(modalStack, ContextId(m))
            /\ modalResolve' = [modalResolve EXCEPT ![m] = {}]
            /\ awaiting' = [awaiting EXCEPT ![m] = {a \in @ : a.id \notin modalResolve[m]}]
       [] OTHER -> UNCHANGED modalVars

\* the listeners of its window that have run for a message event
Ran(ev) == IF "ran" \in DOMAIN ev THEN ev.ran ELSE {}

\* the message events that are queued once the listener of messenger m has
\* run for the event: the event stays for the listeners of its window that
\* have not run yet
Undelivered(m, ev) ==
  IF \E o \in Messengers \ (Ran(ev) \cup {m}) : BoundListener(o) \in listeners[ev.to]
  THEN (channel \ {ev}) \cup {[payload |-> ev.payload, origin |-> ev.origin, to |-> ev.to,
                                ran |-> Ran(ev) \cup {m}]}
  ELSE channel \ {ev}

\* handleMessage of messenger m, a listener of the window, with
\* everything it calls: handleResponse and the continuation of the
\* syncContext that awaits the reply, or handleIncomingMessage and the
\* handler it invokes
HandleMessage(m, ev) ==
  LET payload == ev.payload
  IN /\ calls' = IF m \in Invokers(ev) THEN calls \cup {Call(m, payload)} ELSE calls
     /\ IF ~Accepts(m, ev)
        THEN /\ channel' = Undelivered(m, ev)
             /\ UNCHANGED <<nextId, pendingMessages, timers, promise, settled, sender,
                            context, contextHistory, appended, syncing, modalVars>>
        ELSE IF IsResponse(payload)
        THEN /\ Emit(m, <<>>, Undelivered(m, ev),
                     [pendingMessages EXCEPT ![m] = PendingAfterResponse(m, ev)],
                     [timers EXCEPT ![m] = TimersAfterResponse(m, ev)],
                     [i \in DOMAIN promise |->
                        IF m \in Settlers(ev) /\ i = payload.responseId
                        THEN Resolve(promise[i], payload.data) ELSE promise[i]],
                     [i \in DOMAIN settled |->
                        IF m \in Settlers(ev) /\ i = payload.responseId
                        THEN Append(settled[i], "reply") ELSE settled[i]])
             /\ Commit(IF /\ m \in Settlers(ev)
                          /\ payload.responseId \in syncing[m]
                          /\ Truthy(payload.data)
                       THEN syncContext(Store, m, Received(payload))
                       ELSE Store)
             /\ syncing' = [syncing EXCEPT ![m] = @ \ {payload.responseId}]
             /\ UNCHANGED modalVars
        ELSE /\ Emit(m, SentByHandler(m, payload) \o Responses(m, payload),
                     Undelivered(m, ev), pendingMessages, timers, promise, settled)
             /\ Commit(StoreAfter(m, payload))
             /\ syncing' = [syncing EXCEPT ![m] = @ \cup SyncRequests(SentByHandler(m, payload))]
             /\ ModalAfter(m, payload)
     /\ UNCHANGED <<config, targetWindow, messageHandlers, listeners, destroyed,
                    regs, forged, now, ops, lastOff>>

\* the browser dispatches a message event to the listeners of its window,
\* one after the other in the order in which they were added
StoreDeliver(ev) ==
  /\ ev \in channel
  /\ \E m \in Messengers \ Ran(ev) :
        /\ BoundListener(m) \in listeners[ev.to]
        /\ \A o \in Messengers \ Ran(ev) :
              BoundListener(o) \in listeners[ev.to] => ListenerRank(m) <= ListenerRank(o)
        /\ HandleMessage(m, ev)

(***************************************************************************)
(* The methods of ContextManager an application calls.                     *)
(***************************************************************************)
\* a method of the ContextManager built on messenger m: the Contexts and
\* histories it leaves, and the calls of send() it makes
Method(m, st, out) ==
  /\ ops' = ops + 1
  /\ Commit(st)
  /\ Emit(m, Attempted(m, out), channel, pendingMessages, timers, promise, settled)
  /\ syncing' = [syncing EXCEPT ![m] = @ \cup SyncRequests(Attempted(m, out))]
  /\ UNCHANGED <<config, targetWindow, messageHandlers, listeners, calls, destroyed,
                 regs, forged, now, modalVars, lastOff>>

UpdateContext(m, updates, notify) ==
  Method(m, updateContext(Store, m, updates),
         IF notify THEN <<Message("state", "update", updates, FALSE)>> ELSE <<>>)

\* syncContext(remoteContext): the merge of a truthy argument, the pull
\* otherwise
SyncContext(m, remoteContext) ==
  IF Truthy(remoteContext)
  THEN Method(m, syncContext(Store, m, remoteContext), <<>>)
  ELSE Method(m, Store, <<Message("state", "request", Undefined, TRUE)>>)

UpdateNavigation(m, navigation) ==
  LET updates == updateNavigation(context[m], navigation)
  IN Method(m, updateContext(Store, m, updates),
            <<Message("state", "update", updates, FALSE)>>)

\* a navigate that reads the current route once it has set it
SentByNavigateLate(m, route, params, state) ==
  <<Message("state", "update",
            updateNavigation(context[m],
              [previousRoute |-> route, currentRoute |-> route,
               params |-> params, state |-> state]), FALSE),
    Message("navigation", "navigate_to",
            [route |-> route, params |-> params, state |-> state,
             previousRoute |-> route], FALSE)>>

\* the calls of send() of navigate(route, params, state), in order
SentByNavigate(m, route, params, state) ==
  LET previousRoute == context[m].navigation.currentRoute
  IN <<Message("state", "update",
               updateNavigation(context[m],
                 [previousRoute |-> previousRoute, currentRoute |-> route,
                  params |-> params, state |-> state]), FALSE),
       Message("navigation", "navigate_to",
               [route |-> route, params |-> params, state |-> state,
                previousRoute |-> previousRoute], FALSE)>>

Navigate(m, route, params, state) ==
  LET out == SentByNavigate(m, route, params, state)
  IN Method(m, updateContext(Store, m, out[1].data), out)

\* a goBack that always returns to the root route
PreviousRouteRoot(m) == "/"

\* this.context.navigation.previousRoute || '/': a route that is recorded
\* is a non-empty string
PreviousRoute(m) ==
  IF "previousRoute" \in DOMAIN context[m].navigation
  THEN context[m].navigation.previousRoute
  ELSE "/"

GoBack(m) ==
  LET out == SentByNavigate(m, PreviousRoute(m), Undefined, Undefined)
  IN Method(m, updateContext(Store, m, out[1].data),
            out \o <<Message("navigation", "go_back", [route |-> PreviousRoute(m)], FALSE)>>)

\* breadcrumbs.findIndex(b => b.path === path), counted from 1; 0 for -1
FindIndex(items, path) ==
  IF \E i \in 1..Len(items) : items[i].path = path
  THEN CHOOSE i \in 1..Len(items) :
          items[i].path = path /\ \A j \in 1..(i - 1) : items[j].path # path
  ELSE 0

\* a trail that keeps what follows the crumb found
SplicedKeepsTail(items, label, path, params) ==
  IF FindIndex(items, path) > 0 THEN items
  ELSE Append(items, [label |-> label, path |-> path, params |-> params])

\* breadcrumbs.splice(existingIndex + 1), or breadcrumbs.push(...)
Spliced(items, label, path, params) ==
  IF FindIndex(items, path) > 0
  THEN SubSeq(items, 1, FindIndex(items, path))
  ELSE Append(items, [label |-> label, path |-> path, params |-> params])

\* the array addBreadcrumb works on: the one of the Context, or a new one
Breadcrumbs(m) ==
  IF HasBreadcrumbs(context[m]) THEN context[m].navigation.breadcrumbs
  ELSE Array(<<"call", ops>>, <<>>)

AddBreadcrumb(m, label, path, params) ==
  LET ref == Breadcrumbs(m).ref
      items == Spliced(Breadcrumbs(m).items, label, path, params)
      written == InPlace(Store, ref, items)
      updates == updateNavigation(written.context[m], [breadcrumbs |-> Array(ref, items)])
  IN Method(m, updateContext(written, m, updates),
            <<Message("state", "update", updates, FALSE)>>)

\* a check of the index that accepts the length of the history
RestoredInclusive(m, index) == index >= 0 /\ index <= Len(contextHistory[m])

\* the value restoreFromHistory(index) returns, index counted from 0
Restored(m, index) == index >= 0 /\ index < Len(contextHistory[m])

\* restoreFromHistory(index): updateContext with the snapshot at the index
\* when the check passes (undefined where the array has no element),
\* nothing otherwise
RestoreFromHistory(m, index) ==
  LET historicContext == IF index + 1 \in DOMAIN contextHistory[m]
                         THEN contextHistory[m][index + 1] ELSE Undefined
  IN IF Restored(m, index)
     THEN Method(m, updateContext(Store, m, historicContext),
                 <<Message("state", "update", historicContext, FALSE)>>)
     ELSE Method(m, Store, <<>>)

\* time passes: Date.now() returns a later value
Tick ==
  /\ now < MaxNow
  /\ now' = now + 1
  /\ UNCHANGED <<messengerVars, context, contextHistory, appended, ops, syncing,
                 modalVars, lastOff>>

(***************************************************************************)
(* The specifications.                                                     *)
(***************************************************************************)
SendStep ==
  /\ \E m \in Peers, type \in Types, action \in Actions, data \in DataValues,
        requiresResponse \in BOOLEAN : Send(m, type, action, data, requiresResponse)
  /\ UNCHANGED appVars

TimeoutStep == \E m \in Messengers, id \in DOMAIN promise : TimeoutFires(m, id)

DeliverStep == (\E ev \in channel : Deliver(ev)) /\ UNCHANGED appVars

DestroyStep == \E m \in Peers : Destroy(m)

SetTargetWindowStep == \E m \in Messengers : SetTargetWindow(m)

OnStep ==
  /\ \E m \in Peers, type \in Types, handler \in Handlers : On(m, type, handler)
  /\ UNCHANGED appVars

OnActionStep ==
  /\ \E m \in Peers, type \in Types, action \in Actions, handler \in Handlers :
        OnAction(m, type, action, handler)
  /\ UNCHANGED appVars

OffStep ==
  /\ \E m \in Peers, type \in Types, action \in Actions \cup {NoAction} :
        Off(m, type, action)
  /\ UNCHANGED appVars

ForeignPostStep == \E w \in Windows : \E payload \in ForgedPayloads(w) : ForeignPost(w, payload)

\* the request/response protocol of two messengers whose applications
\* register no handler
Next ==
  \/ SendStep
  \/ TimeoutStep
  \/ DeliverStep
  \/ DestroyStep
  \/ SetTargetWindowStep

Spec == Init /\ [][Next]_vars

\* the same protocol with fewer calls of send(), under the scheduling of
\* the browser: the timeout of a pending request fires unless it is cleared,
\* and every queued message event is dispatched
FairSendStep == Cardinality(DOMAIN promise) < MaxFairSends /\ SendStep

FairNext ==
  \/ FairSendStep
  \/ TimeoutStep
  \/ DeliverStep
  \/ DestroyStep
  \/ SetTargetWindowStep

Fairness ==
  /\ \A m \in Messengers, id \in 1..(2 * MaxFairSends) : WF_vars(TimeoutFires(m, id))
  /\ WF_vars(DeliverStep)

FairSpec == Init /\ [][FairNext]_vars /\ Fairness

\* the configuration of the messengers HostIframeManager.createIframe and
\* IframeApp construct: no timeout is passed
DispatchInit == Init /\ \A m \in Messengers : config[m].timeout = DefaultTimeout

DispatchSendStep == Cardinality(DOMAIN promise) < MaxDispatchSends /\ SendStep

\* dispatch of inbound envelopes to the handlers the applications register
DispatchNext ==
  \/ DispatchSendStep
  \/ TimeoutStep
  \/ DeliverStep
  \/ SetTargetWindowStep
  \/ OnStep
  \/ OnActionStep
  \/ OffStep

DispatchSpec == DispatchInit /\ [][DispatchNext]_vars

\* requests for data that wait for their reply, as IframeApp.requestData
\* sends them
RequestDataStep ==
  /\ Cardinality(DOMAIN promise) < MaxDispatchSends
  /\ \E m \in Peers, data \in DataValues : Send(m, "data", "request", data, TRUE)
  /\ UNCHANGED appVars

\* registration of a handler for these requests, as IframeApp.onMessage does
OnRequestDataStep ==
  /\ \E m \in Peers : OnAction(m, "data", "request", "h1")
  /\ UNCHANGED appVars

\* the two messengers with a document of a third origin posting envelopes
\* of its own making to both windows
ForeignNext ==
  \/ RequestDataStep
  \/ TimeoutStep
  \/ DeliverStep
  \/ SetTargetWindowStep
  \/ OnRequestDataStep
  \/ ForeignPostStep

ForeignSpec == DispatchInit /\ [][ForeignNext]_vars

\* the host application has registered h1 for the requests data/request;
\* the messengers are configured with the default timeout and with
\* maxRetries set to 0 or left at 3
RequestInit ==
  /\ InitWith(Peers, [m \in Messengers |->
                        IF m = "host" THEN ActionKey("data", "request") :> "h1"
                        ELSE NoHandlers])
  /\ \A m \in Messengers :
        config[m].timeout = DefaultTimeout /\ config[m].maxRetries = config["host"].maxRetries

\* the host application replaces its handler by one that fails; the guest
\* sends requests that wait for their reply, under the scheduling of the
\* browser
FailingSpec ==
  /\ RequestInit
  /\ [][\/ /\ Cardinality(DOMAIN promise) < MaxFairSends
            /\ \E action \in Actions, data \in DataValues :
                  Send("guest", "data", action, data, TRUE)
            /\ UNCHANGED appVars
         \/ (OnAction("host", "data", "request", "failing") /\ UNCHANGED appVars)
         \/ TimeoutStep
         \/ DeliverStep
         \/ SetTargetWindowStep]_vars
  /\ Fairness

\* the request/response protocol from there: requests and notifications of
\* every kind, answered by the handler or with the 'no handler' error, or
\* timing out
RetrySpec ==
  RequestInit /\ [][SendStep \/ TimeoutStep \/ DeliverStep \/ SetTargetWindowStep]_vars

\* the guest sends requests for data of two kinds; the host has a handler
\* for one kind and answers the other with the 'no handler' error, until it
\* registers another handler for the type or in place of the first
CorrelationSpec ==
  RequestInit /\
     [][\/ /\ Cardinality(DOMAIN promise) < MaxSends
           /\ \E action \in Actions, data \in DataValues :
                 Send("guest", "data", action, data, TRUE)
           /\ UNCHANGED appVars
        \/ /\ On("host", "data", "h2") \/ OnAction("host", "data", "request", "h2")
           /\ UNCHANGED appVars
        \/ DeliverStep
        \/ SetTargetWindowStep]_vars

\* the envelopes of ForgedPayloads without one of the fields isValidPayload
\* requires, or with a source that is neither 'host' nor 'iframe'
MalformedPayloads(w) ==
  {[k \in DOMAIN p \ {f} |-> p[k]] :
      p \in ForgedPayloads(w), f \in {"id", "type", "action", "timestamp", "source"}}
  \cup {[p EXCEPT !.source = "widget"] : p \in ForgedPayloads(w)}

\* the guest requests data from the host, which registers a handler for
\* the requests, while another script of the peer's document posts
\* envelopes that are not well-formed to either window: their origin is the
\* authorized one
MalformedSpec ==
  DispatchInit /\
    [][\/ /\ Cardinality(DOMAIN promise) < MaxDispatchSends
          /\ \E data \in DataValues : Send("guest", "data", "request", data, TRUE)
          /\ UNCHANGED appVars
       \/ DeliverStep
       \/ SetTargetWindowStep
       \/ /\ messageHandlers["host"] = NoHandlers
          /\ OnAction("host", "data", "request", "h1")
          /\ UNCHANGED appVars
       \/ \E w \in Windows : \E payload \in MalformedPayloads(w) :
             LET ev == [payload |-> payload, origin |-> OriginOf(WindowOf(PeerOf(w))),
                        to |-> w]
             IN /\ Cardinality(forged) < MaxForeign
                /\ forged' = forged \cup {ev}
                /\ channel' = channel \cup {ev}
                /\ UNCHANGED <<config, targetWindow, pendingMessages, timers,
                               messageHandlers, listeners, promise, settled, sender,
                               nextId, calls, destroyed, regs, appVars>>]_vars

(***************************************************************************)
(* The two ContextManagers over their messengers.                          *)
(***************************************************************************)
\* partial Contexts an application passes to updateContext
UpdateChoices == {[app |-> [theme |-> "dark"]], [app |-> [lang |-> "en"]]}

Routes == {"/list"}

Crumbs == {[label |-> "Home", path |-> "/"], [label |-> "List", path |-> "/list"]}

\* one call of a method of a ContextManager
MethodStep ==
  \E m \in Peers :
     \/ \E updates \in UpdateChoices, notify \in BOOLEAN : UpdateContext(m, updates, notify)
     \/ SyncContext(m, Undefined)
     \/ \E route \in Routes : UpdateNavigation(m, [currentRoute |-> route])
     \/ \E route \in Routes : Navigate(m, route, Undefined, Undefined)
     \/ GoBack(m)
     \/ \E c \in Crumbs : AddBreadcrumb(m, c.label, c.path, Undefined)
     \/ \E index \in (0 - 1)..maxHistorySize : RestoreFromHistory(m, index)

StoreDeliverStep == \E ev \in channel : StoreDeliver(ev)

\* the applications call updateContext on either side, with and without
\* notifying the peer
UpdateStep ==
  /\ ops < MaxUpdates
  /\ \E m \in Peers, updates \in UpdateChoices, notify \in BOOLEAN :
        UpdateContext(m, updates, notify)

UpdateSpec ==
  ConstructedInit /\ [][UpdateStep \/ StoreDeliverStep \/ SetTargetWindowStep \/ Tick]_vars

\* the same calls under the scheduling of the browser: every message event
\* that is queued on a window is dispatched
EchoSpec ==
  /\ ConstructedInit
  /\ [][UpdateStep \/ StoreDeliverStep \/ SetTargetWindowStep]_vars
  /\ WF_vars(StoreDeliverStep)

\* the Contexts and histories after updateContext({metadata: {step: k}},
\* false) for k = 1..n, called one after the other on the ContextManager
\* of messenger m: without notification no call awaits anything
RECURSIVE Repeated(_, _, _)
Repeated(st, m, n) ==
  IF n = 0 THEN st
  ELSE updateContext(Repeated(st, m, n - 1), m, [metadata |-> [step |-> n]])

\* an application starts with n sequential local updates
UpdateBurst(m, n) ==
  /\ ops = 0
  /\ \A p \in Messengers : appended[p] = <<>>
  /\ Commit(Repeated(Store, m, n))
  /\ UNCHANGED <<messengerVars, now, ops, syncing, modalVars, lastOff>>

\* once the guest document exists and the iframe has loaded, the
\* applications call updateContext on either side and notify the peer; the
\* message events one window posts to another are dispatched in the order
\* in which they were posted
ConsistencySpec ==
  ConstructedInit /\
    [][\/ /\ ops < MaxUpdates
          /\ \A p \in Peers : TargetAvailable(p)
          /\ \E m \in Peers, updates \in UpdateChoices : UpdateContext(m, updates, TRUE)
       \/ \E ev \in channel :
             /\ \A e \in channel :
                   (e.to = ev.to /\ e.origin = ev.origin) => e.payload.id >= ev.payload.id
             /\ StoreDeliver(ev)
       \/ SetTargetWindowStep]_vars

\* sequential updates that leave the history one short of its capacity,
\* fill it or overflow it, then calls of any method on either side and the
\* updates the peers apply
HistorySpec ==
  ConstructedInit /\ [][\/ \E m \in Peers, n \in (maxHistorySize - 1)..MaxBurst :
                              UpdateBurst(m, n)
                        \/ (ops < MaxHistoryOps /\ MethodStep)
                        \/ StoreDeliverStep
                        \/ SetTargetWindowStep]_vars

\* NavigationHelper.openModal(route, data) of the guest application
OpenModal(m, route, data) ==
  Method(m, Store, <<Message("ui", "modal_open", [route |-> route, data |-> data], TRUE)>>)

\* NavigationHelper.closeModal(result) of the guest application
CloseModal(m, result) ==
  Method(m, Store, <<Message("ui", "modal_close", result, FALSE)>>)

\* the guest application opens and closes modals; the host handles the
\* requests in the order in which the events are dispatched
ModalSpec ==
  ConstructedInit /\ [][\/ (ops < MaxModalOps /\ OpenModal("guest", "/confirm", Undefined))
                        \/ (ops < MaxModalOps /\ CloseModal("guest", [confirmed |-> TRUE]))
                        \/ StoreDeliverStep
                        \/ TimeoutStep
                        \/ SetTargetWindowStep]_vars

\* the applications call addBreadcrumb on either side
BreadcrumbSpec ==
  ConstructedInit /\ [][\/ /\ ops < MaxCrumbs
                           /\ \E m \in Peers, c \in Crumbs :
                                 AddBreadcrumb(m, c.label, c.path, Undefined)
                        \/ StoreDeliverStep
                        \/ SetTargetWindowStep]_vars

\* the arguments the applications pass to navigate
NavigateCalls ==
  {[route |-> "/list", params |-> Undefined, state |-> Undefined],
   [route |-> "/detail", params |-> [id |-> 7], state |-> [tab |-> "a"]]}

\* the guest application navigates and goes back (IframeApp.navigate and
\* IframeApp.goBack), after a first breadcrumb or query; the peers handle
\* what they are sent, in the order in which one window posted it to the
\* other
NavigationSpec ==
  ConstructedInit /\
    [][\/ /\ ops < MaxNavs
          /\ \E c \in NavigateCalls : Navigate("guest", c.route, c.params, c.state)
       \/ (ops < MaxNavs + 1 /\ GoBack("guest"))
       \/ (ops = 0 /\ AddBreadcrumb("guest", "Home", "/", Undefined))
       \/ (ops = 0 /\ UpdateNavigation("guest", [query |-> [q |-> "x"]]))
       \/ \E ev \in channel :
             /\ \A e \in channel :
                   (e.to = ev.to /\ e.origin = ev.origin) => e.payload.id >= ev.payload.id
             /\ StoreDeliver(ev)
       \/ SetTargetWindowStep]_vars

\* the promise syncContext() returns without the try/catch around the
\* awaited send: the failure of the send is its failure
SyncContextPromiseUncaught(p) == p

\* the promise syncContext() returns, from the promise p of the send it
\* awaits: pending while p is, fulfilled with undefined once p is settled,
\* since the catch block ends the method normally when p is rejected
SyncContextPromise(p) ==
  IF p.state = "pending" THEN Pending ELSE [state |-> "fulfilled", value |-> Undefined]

\* syncContext() without an argument: createIframe calls it once on the
\* host, before the iframe has loaded, and the guest application calls it
\* in initialize and on its interval; the request is answered, times out,
\* or the guest application destroys its messenger
SyncSpec ==
  ConstructedInit /\ [][\/ \E m \in Peers :
                              /\ IF isHost(m) THEN ~TargetAvailable(m) /\ syncing[m] = {}
                                 ELSE Cardinality(syncing[m] \cup
                                        {id \in DOMAIN promise : sender[id] = m}) < MaxSyncs
                              /\ SyncContext(m, Undefined)
                        \/ StoreDeliverStep
                        \/ TimeoutStep
                        \/ Destroy("guest")
                        \/ SetTargetWindowStep
                        \/ Tick]_vars

\* the host application removes the state/request handler of its messenger
\* with off(); the guest application pulls the Context with syncContext()
PullSpec ==
  ConstructedInit /\ [][\/ (Off("host", "state", "request") /\ UNCHANGED appVars)
                        \/ /\ Cardinality(DOMAIN promise) < MaxSyncs
                           /\ SyncContext("guest", Undefined)
                        \/ StoreDeliverStep
                        \/ TimeoutStep
                        \/ SetTargetWindowStep
                        \/ Tick]_vars

\* the host has called createIframe for two iframes, g1 and g2, served
\* from the same origin: a messenger, a ContextManager and the handlers of
\* setupIframeHandlers for each, both messengers listening on the host
\* window; the document of g1 has constructed its IframeApp
TwoGuestsInit ==
  /\ InitWith(Peers \cup {"host2"},
              [m \in Messengers |->
                 IF m \in Peers \cup {"host2"} THEN ConstructedHandlers(m) ELSE NoHandlers])
  /\ \A m \in Messengers : config[m].timeout = DefaultTimeout /\ config[m].maxRetries = 3

\* the application of g1 updates its Context and opens a modal;
\* the host handles what it is sent
TwoGuestsSpec ==
  TwoGuestsInit /\
    [][\/ /\ ops < MaxUpdates
          /\ \/ \E updates \in UpdateChoices : UpdateContext("guest", updates, TRUE)
             \/ OpenModal("guest", "/confirm", Undefined)
       \/ StoreDeliverStep
       \/ SetTargetWindowStep]_vars

\* the guest document has constructed a second IframeApp: two messengers
\* listen on the guest window and both target the host window
SharedWindowInit ==
  /\ InitWith(Peers \cup {"guest2"}, [m \in Messengers |-> NoHandlers])
  /\ \A m \in Messengers : config[m].timeout = DefaultTimeout /\ config[m].maxRetries = 3

SharedWindowSpec ==
  SharedWindowInit /\ [][\/ RequestDataStep
                         \/ TimeoutStep
                         \/ DeliverStep
                         \/ SetTargetWindowStep
                         \/ OnRequestDataStep]_vars

(***************************************************************************)
(* The handler registry of the constructed applications.                   *)
(***************************************************************************)
RegistryTypes == {"state", "error"}

RegistryActions == {"update", "fatal"}

\* the record kept of a call of off(): its arguments and the map it found
OffCall(m, type, action) ==
  [called |-> TRUE, messenger |-> m, type |-> type, action |-> action,
   found |-> messageHandlers[m]]

RegistryOnStep ==
  /\ \E m \in Peers, type \in RegistryTypes, handler \in Handlers : On(m, type, handler)
  /\ UNCHANGED appVars

RegistryOnActionStep ==
  /\ \E m \in Peers, type \in RegistryTypes, action \in RegistryActions,
        handler \in Handlers : OnAction(m, type, action, handler)
  /\ UNCHANGED appVars

RegistryOffStep ==
  /\ \E m \in Peers, type \in RegistryTypes, action \in RegistryActions \cup {NoAction} :
        /\ Off(m, type, action)
        /\ lastOff' = OffCall(m, type, action)
  /\ UNCHANGED <<storeVars, modalVars>>

RegistrySpec ==
  ConstructedInit /\ [][RegistryOnStep \/ RegistryOnActionStep \/ RegistryOffStep]_vars

(***************************************************************************)
(* Properties.                                                             *)
(***************************************************************************)
\* ids of the requests sent with requiresResponse=true whose envelope was
\* handed to the transport
TransmittedRequests ==
  {i \in DOMAIN settled :
     settled[i] = <<>> \/ settled[i][1] \in {"reply", "timeout", "destroy"}}

\* what a promise is once the named cause has settled it
SettledAs(i, cause) ==
  IF cause = "reply" THEN promise[i].state = "fulfilled"
  ELSE IF cause = "timeout"
       THEN promise[i] = [state |-> "rejected", error |-> TimeoutError(sender[i])]
       ELSE promise[i] = [state |-> "rejected", error |-> DestroyedError]

SettledAtMostOnce ==
  \A i \in TransmittedRequests :
     /\ Len(settled[i]) <= 1
     /\ settled[i] = <<>> => promise[i] = Pending
     /\ settled[i] # <<>> => SettledAs(i, settled[i][1])

EventuallySettled ==
  \A i \in 1..(2 * MaxFairSends) :
     [](i \in TransmittedRequests => <>(i \in DOMAIN settled /\ settled[i] # <<>>))

\* C1: every request sent with requiresResponse=true is settled exactly once,
\* by its reply, by its timeout or by destroy(): resolve/reject is never
\* called on it a second time, and it does not stay unsettled forever.
C1_SettledExactlyOnce == []SettledAtMostOnce /\ EventuallySettled

\* C1 witness: a request was transmitted and its reply settled it, and the
\* messenger was destroyed afterwards.
C1_Witness ==
  \E i \in TransmittedRequests : settled[i] = <<"reply">> /\ destroyed[sender[i]]

\* the event is dispatched in this step
Dispatched(ev) == ev \in channel /\ ev \notin channel'

\* the handler invocations a messenger adds in this step
NewCalls(m) == {c \in calls' \ calls : c.messenger = m}

\* the message events the window of a messenger posts in this step
NewPosts(m) == {e \in channel' \ channel : e.origin = OriginOf(WindowOf(m))}

\* the promises of a messenger are as they were
PromisesUntouched(m) ==
  \A i \in DOMAIN promise :
     sender[i] = m => promise'[i] = promise[i] /\ settled'[i] = settled[i]

\* C2: an envelope whose actual origin differs from the expected origin of
\* the messenger that hears it invokes no handler of that messenger, settles
\* none of its pending requests and makes it transmit nothing.
C2_UnauthorizedOriginDropped ==
  [][\A ev \in channel, m \in Messengers :
       (Dispatched(ev) /\ Hears(m, ev) /\ ev.origin # targetOrigin(m)) =>
          /\ NewCalls(m) = {}
          /\ pendingMessages'[m] = pendingMessages[m]
          /\ timers'[m] = timers[m]
          /\ PromisesUntouched(m)
          /\ NewPosts(m) = {}]_vars

\* C2 witness: a forged reply for a pending request and a forged request
\* for a registered handler were dispatched to the messenger concerned: the
\* request is still pending and the handler was not invoked.
C2_Witness ==
  \E f \in forged, m \in Messengers :
     /\ f \notin channel
     /\ f.to = WindowOf(m)
     /\ \/ /\ IsResponse(f.payload)
           /\ f.payload.responseId \in pendingMessages[m]
        \/ /\ ~IsResponse(f.payload)
           /\ ActionKey(f.payload.type, f.payload.action) \in DOMAIN messageHandlers[m]
           /\ calls = {}

\* C3: an inbound request invokes the handler registered for its exact
\* (type, action) when there is one, and then no other; the handler of the
\* type alone is invoked only when no exact one is registered; without
\* either, no handler is invoked.
C3_HandlerPrecedence ==
  [][\A ev \in channel, m \in Messengers :
       (Dispatched(ev) /\ Accepts(m, ev) /\ ~IsResponse(ev.payload)) =>
          LET exact == ActionKey(ev.payload.type, ev.payload.action)
              general == TypeKey(ev.payload.type)
              invoked == {<<c.key, c.handler, c.message>> : c \in NewCalls(m)}
          IN IF exact \in DOMAIN messageHandlers[m]
             THEN invoked = {<<exact, messageHandlers[m][exact], ev.payload.id>>}
             ELSE IF general \in DOMAIN messageHandlers[m]
                  THEN invoked = {<<general, messageHandlers[m][general], ev.payload.id>>}
                  ELSE invoked = {}]_vars

\* C3 witness: a handler was invoked under the exact key while another
\* handler was registered for the type alone.
C3_Witness ==
  \E c \in calls :
     /\ c.key = ActionKey(c.type, c.action)
     /\ TypeKey(c.type) \in c.registered

\* C4: a reply dispatched after its request timed out changes nothing but
\* the channel: no promise is touched, no handler is invoked, nothing is
\* transmitted, and the pending table, the timeouts and the handler map stay
\* as they were.
C4_LateReplyDropped ==
  [][\A ev \in channel, m \in Messengers :
       (/\ Dispatched(ev)
        /\ Accepts(m, ev)
        /\ IsResponse(ev.payload)
        /\ ev.payload.responseId \in DOMAIN settled
        /\ sender[ev.payload.responseId] = m
        /\ \E k \in 1..Len(settled[ev.payload.responseId]) :
              settled[ev.payload.responseId][k] = "timeout") =>
          /\ promise' = promise
          /\ settled' = settled
          /\ calls' = calls
          /\ pendingMessages' = pendingMessages
          /\ timers' = timers
          /\ messageHandlers' = messageHandlers
          /\ channel' = channel \ {ev}]_vars

\* C4 witness: the host sent one request, the guest replied (the reply took
\* the second id), the request timed out and nothing is left in the channel:
\* the reply was dispatched after the timeout.
C4_Witness ==
  \E i \in DOMAIN promise :
     /\ DOMAIN promise = {i}
     /\ sender[i] = "host"
     /\ settled[i] = <<"timeout">>
     /\ nextId = i + 2
     /\ channel = {}

\* C5: when a handler registered for the exact (type, action) of a request
\* was invoked for it and the reply settled the request (it was dispatched
\* before the timeout fired), the sender's promise is fulfilled with exactly
\* the value that handler returned.
C5_EndToEndReply ==
  \A i \in DOMAIN promise, c \in calls :
     (/\ c.message = i
      /\ c.key = ActionKey(c.type, c.action)
      /\ settled[i] # <<>>
      /\ settled[i][1] = "reply") =>
        promise[i] = [state |-> "fulfilled", value |-> Result(c.handler)]

\* C5 witness: the guest's request was handled by the host under the exact
\* key and settled by the reply.
C5_Witness ==
  \E i \in DOMAIN promise, c \in calls :
     /\ sender[i] = "guest"
     /\ c.message = i
     /\ c.messenger = "host"
     /\ c.key = ActionKey(c.type, c.action)
     /\ settled[i] = <<"reply">>

\* C6: a messenger that accepts a request requiring a reply and has no
\* handler for its (type, action) nor for its type transmits, to the window
\* of the sender, a reply to it that carries the 'no handler' error payload.
C6_NoHandlerReply ==
  [][\A ev \in channel, m \in Messengers :
       (/\ Dispatched(ev)
        /\ Accepts(m, ev)
        /\ ~IsResponse(ev.payload)
        /\ RequiresResponse(ev.payload)
        /\ ActionKey(ev.payload.type, ev.payload.action) \notin DOMAIN messageHandlers[m]
        /\ TypeKey(ev.payload.type) \notin DOMAIN messageHandlers[m]) =>
          \E r \in NewPosts(m) :
             /\ IsResponse(r.payload)
             /\ r.payload.responseId = ev.payload.id
             /\ r.payload.data = NoHandlerError]_vars

\* C7: a request settled by its timeout has failed with the timeout error
\* that names the timeout configured for its messenger, and it is no longer
\* in the pending table.
C7_TimeoutFailure ==
  \A i \in DOMAIN settled :
     settled[i] = <<"timeout">> =>
        /\ promise[i] = [state |-> "rejected",
                         error |-> "Message timeout after "
                                     \o ToString(config[sender[i]].timeout) \o "ms"]
        /\ i \notin pendingMessages[sender[i]]

\* C7 witness: a request of a messenger configured with a timeout other than
\* the default timed out.
C7_Witness ==
  \E i \in DOMAIN settled :
     settled[i] = <<"timeout">> /\ config[sender[i]].timeout # DefaultTimeout

\* destroy() runs on messenger m in this step with requests pending
DestroysPending(m) ==
  \E i \in pendingMessages[m] : settled'[i] = Append(settled[i], "destroy")

\* nothing settles a request after destroy() has
DestroyIsLast ==
  \A i \in DOMAIN settled :
     \A k \in 1..Len(settled[i]) : settled[i][k] = "destroy" => k = Len(settled[i])

\* a promise that destroy() settled failed with the 'destroyed' error, which
\* is not the timeout error of any messenger
DestroyedIsDistinct ==
  \A i \in DOMAIN settled :
     settled[i] = <<"destroy">> =>
        /\ promise[i] = [state |-> "rejected", error |-> DestroyedError]
        /\ \A m \in Messengers : promise[i].error # TimeoutError(m)

\* C8: destroy() rejects every request pending at that moment with the
\* 'destroyed' error, which differs from the timeout error, clears their
\* timeouts so that none fires afterwards, and empties the pending table.
C8_DestroySettlesPending ==
  /\ [](DestroyIsLast /\ DestroyedIsDistinct)
  /\ [][\A m \in Messengers :
          DestroysPending(m) =>
             /\ pendingMessages'[m] = {}
             /\ timers'[m] \cap pendingMessages[m] = {}
             /\ \A i \in pendingMessages[m] :
                   /\ settled'[i] = Append(settled[i], "destroy")
                   /\ promise[i] = Pending =>
                        promise'[i] = [state |-> "rejected", error |-> DestroyedError]]_vars

\* C8 witness: destroy() settled a transmitted request: its messenger has an
\* empty pending table and no timeout left for it.
C8_Witness ==
  \E i \in DOMAIN settled :
     /\ settled[i] = <<"destroy">>
     /\ pendingMessages[sender[i]] = {}
     /\ i \notin timers[sender[i]]

\* C9: once destroy() has been called on a messenger, no envelope makes it
\* invoke a handler, settle one of its requests or transmit a reply.
C9_NothingProcessedAfterDestroy ==
  [][\A m \in Messengers :
       destroyed[m] =>
          /\ NewCalls(m) = {}
          /\ \A r \in NewPosts(m) : ~IsResponse(r.payload)
          /\ \A i \in DOMAIN settled :
                sender[i] = m => settled'[i] # Append(settled[i], "reply")]_vars

\* C10: a send of the host messenger while it has no target window fails:
\* the promise is rejected with the error of postMessage and no envelope is
\* transmitted, with and without requiresResponse.
C10_SendFailsFastWithoutTarget ==
  [][\A i \in DOMAIN promise' \ DOMAIN promise :
       (isHost(sender'[i]) /\ targetWindow[sender'[i]] = NoWindow) =>
          /\ promise'[i] = [state |-> "rejected", error |-> NoTargetError]
          /\ channel' = channel]_vars

\* C10 witness: the host sent twice without a target window, once with
\* requiresResponse (the entry is in the pending table) and once without,
\* and both promises are rejected.
C10_Witness ==
  \E i, j \in DOMAIN promise :
     /\ sender[i] = "host" /\ sender[j] = "host"
     /\ promise[i] = [state |-> "rejected", error |-> NoTargetError]
     /\ promise[j] = [state |-> "rejected", error |-> NoTargetError]
     /\ i \in pendingMessages["host"]
     /\ settled[j] = <<"throw">> /\ j \notin pendingMessages["host"] /\ j \notin timers["host"]
     /\ channel = {}

\* a handler map keeps the key with the handler it had
Keeps(before, after, key) ==
  key \in DOMAIN before => (key \in DOMAIN after /\ after[key] = before[key])

\* C19: off(type) without an action removes the handler registered for the
\* type alone and leaves every (type, action) handler registered;
\* off(type, action) removes the handler of exactly that (type, action) and
\* leaves the handler of the type alone and every other handler registered.
\* No call of off() adds a key or touches the map of another messenger.
C19_OffRemovesExactKey ==
  [][lastOff' # lastOff =>
       LET m == lastOff'.messenger
           removed == IF lastOff'.action = NoAction
                      THEN lastOff'.type
                      ELSE lastOff'.type \o ":" \o lastOff'.action
       IN /\ lastOff'.found = messageHandlers[m]
          /\ removed \notin DOMAIN messageHandlers'[m]
          /\ DOMAIN messageHandlers'[m] \subseteq DOMAIN messageHandlers[m]
          /\ \A k \in DOMAIN messageHandlers[m] \ {removed} :
                Keeps(messageHandlers[m], messageHandlers'[m], k)
          /\ \A o \in Messengers \ {m} : messageHandlers'[o] = messageHandlers[o]]_vars

\* C19 witness: off(type) was called on a map that held the handler of the
\* type alone and a handler of an action of that type, and the handler of
\* the action is still registered.
C19_Witness ==
  /\ lastOff.called
  /\ lastOff.action = NoAction
  /\ TypeKey(lastOff.type) \in DOMAIN lastOff.found
  /\ \E a \in RegistryActions :
        /\ ActionKey(lastOff.type, a) \in DOMAIN lastOff.found
        /\ ActionKey(lastOff.type, a) \in DOMAIN messageHandlers[lastOff.messenger]
  /\ TypeKey(lastOff.type) \notin DOMAIN messageHandlers[lastOff.messenger]

\* the replies to a request that are transmitted in this step
NewReplies(id) ==
  {r \in channel' \ channel : IsResponse(r.payload) /\ r.payload.responseId = id}

\* C18: the dispatch of an envelope sent with requiresResponse=true
\* transmits at most one reply that carries its id, whatever messengers
\* listen on the window it is dispatched to. (An envelope is dispatched once,
\* so the replies of that step are all the replies it ever gets.)
C18_AtMostOneReply ==
  [][\A ev \in channel :
       (Dispatched(ev) /\ RequiresResponse(ev.payload)) =>
          Cardinality(NewReplies(ev.payload.id)) <= 1]_vars

\* C11: updateContext merges shallowly: every top-level key of the update
\* holds the update's value afterwards, whole (nothing nested in the previous
\* value survives), and every other top-level key except updatedAt keeps its
\* value; no other key appears.
C11_ShallowMerge ==
  [][\A m \in Peers, updates \in UpdateChoices, notify \in BOOLEAN :
       UpdateContext(m, updates, notify) =>
          /\ DOMAIN context'[m] = DOMAIN context[m] \cup DOMAIN updates
          /\ \A k \in DOMAIN updates : context'[m][k] = updates[k]
          /\ \A k \in DOMAIN context[m] \ (DOMAIN updates \cup {"updatedAt"}) :
                context'[m][k] = context[m][k]]_vars

\* C11 witness: app was updated to {theme} and then to {lang}: the Context
\* holds app = {lang} alone and the snapshot before it app = {theme}.
C11_Witness ==
  \E m \in Peers :
     /\ context[m].app = [lang |-> "en"]
     /\ contextHistory[m] # <<>>
     /\ contextHistory[m][Len(contextHistory[m])].app = [theme |-> "dark"]

\* an envelope is a state/update
IsStateUpdate(payload) == payload.type = "state" /\ payload.action = "update"

\* C16: a messenger that accepts a state/update envelope of its peer, on the
\* host side and on the guest side, transmits no state/update envelope when
\* it applies it.
C16_PeerUpdateNotEchoed ==
  [][\A ev \in channel, m \in Peers :
       (Dispatched(ev) /\ Accepts(m, ev) /\ IsStateUpdate(ev.payload)) =>
          \A e \in NewPosts(m) : ~IsStateUpdate(e.payload)]_vars

\* C17: every step that replaces the Context of a ContextManager leaves an
\* updatedAt strictly greater than the one before.
C17_UpdatedAtStrictlyIncreases ==
  [][\A m \in Peers :
       context'[m] # context[m] => context'[m].updatedAt > context[m].updatedAt]_vars

(***************************************************************************)
(* C20: when the state/request call of a syncContext() without argument    *)
(* fails, by its timeout, by destroy or because there is no target window, *)
(* the promise of syncContext is fulfilled all the same and the step of    *)
(* the failure leaves the Context and the history of that ContextManager   *)
(* as they were, updatedAt included.                                       *)
(***************************************************************************)
C20_SyncFailureKeepsContext ==
  [][\A m \in Peers : \A id \in syncing'[m] :
       (/\ promise'[id].state = "rejected"
        /\ (id \in DOMAIN promise => promise[id].state = "pending")) =>
          /\ SyncContextPromise(promise'[id]).state = "fulfilled"
          /\ context'[m] = context[m]
          /\ contextHistory'[m] = contextHistory[m]]_vars

\* three pulls have failed, one in each way, at a time later than the
\* updatedAt of the Contexts
C20_Witness ==
  /\ \E id \in DOMAIN promise :
        id \in syncing[sender[id]] /\ promise[id] = Reject(Pending, NoTargetError)
  /\ \E id \in DOMAIN promise :
        id \in syncing[sender[id]] /\ promise[id] = Reject(Pending, DestroyedError)
  /\ \E id \in DOMAIN promise :
        /\ id \in syncing[sender[id]]
        /\ promise[id] = Reject(Pending, TimeoutError(sender[id]))
        /\ context[sender[id]].updatedAt < now

(***************************************************************************)
(* C14: addBreadcrumb(label, path, params) on a trail that holds a crumb   *)
(* with that path leaves the trail up to and including that crumb, which   *)
(* is then the last one; on a trail without such a crumb it leaves the     *)
(* trail with the new crumb appended, the earlier crumbs in their order.   *)
(***************************************************************************)
Trail(ctx) == IF HasBreadcrumbs(ctx) THEN ctx.navigation.breadcrumbs.items ELSE <<>>

C14_AddBreadcrumb ==
  [][\A m \in Peers, c \in Crumbs :
       AddBreadcrumb(m, c.label, c.path, Undefined) =>
          LET before == Trail(context[m])
              after == Trail(context'[m])
          IN IF \E i \in 1..Len(before) : before[i].path = c.path
             THEN \E i \in 1..Len(before) :
                     /\ before[i].path = c.path
                     /\ after = SubSeq(before, 1, i)
             ELSE after = Append(before, [label |-> c.label, path |-> c.path,
                                          params |-> Undefined])]_vars

\* Home, List, Home: the trail is the single crumb Home, and the update
\* sent after List, with the trail Home, List, is still in transit
C14_Witness ==
  \E m \in Peers :
     /\ ops = 3
     /\ Trail(context[m]) = <<[label |-> "Home", path |-> "/", params |-> Undefined]>>
     /\ \E ev \in channel :
           /\ ev.payload.type = "state" /\ ev.payload.action = "update"
           /\ ev.to # WindowOf(m)
           /\ Len(Trail(ev.payload.data)) = 2
           /\ Trail(ev.payload.data)[2].path = "/list"

(***************************************************************************)
(* C15: when the host handles an open for guest g1 while an earlier open   *)
(* for g1 is unresolved, the later open takes the resolution slot and the  *)
(* earlier one is orphaned; a close answers only the open that holds the   *)
(* slot, with the data of the close; an orphaned open stays orphaned, gets *)
(* no response and its promise is never fulfilled.                         *)
(***************************************************************************)
\* the open was handled, is unresolved and does not hold the slot
Orphaned(id) == id \notin modalResolve["host"] /\ \E a \in awaiting["host"] : a.id = id

HostHandles(ev, h) ==
  Dispatched(ev) /\ Accepts("host", ev) /\ ~IsResponse(ev.payload)
    /\ Handler("host", ev.payload) = h

C15_ModalOverwrite ==
  [][/\ \A ev \in channel :
          (HostHandles(ev, "handleModalOpen") /\ modalResolve["host"] # {}) =>
             /\ modalResolve'["host"] = {ev.payload.id}
             /\ \A id \in modalResolve["host"] : Orphaned(id)'
             /\ NewPosts("host") = {}
     /\ \A ev \in channel :
          HostHandles(ev, "handleModalClose") =>
             /\ \A e \in NewPosts("host") :
                   /\ IsResponse(e.payload)
                   /\ e.payload.responseId \in modalResolve["host"]
                   /\ e.payload.data = ev.payload.data
             /\ (modalResolve["host"] # {} /\ TargetAvailable("host")) => NewPosts("host") # {}
     /\ \A id \in DOMAIN promise :
          Orphaned(id) =>
             /\ Orphaned(id)'
             /\ promise'[id].state # "fulfilled"
             /\ \A e \in channel' : IsResponse(e.payload) => e.payload.responseId # id]_vars

\* two opens and one close were handled: the promise of the later open is
\* fulfilled with the result of the close, the earlier open is orphaned and
\* its promise is not fulfilled
C15_Witness ==
  \E first, second \in DOMAIN promise :
     /\ first < second
     /\ Orphaned(first)
     /\ promise[first].state # "fulfilled"
     /\ promise[second] = Resolve(Pending, [confirmed |-> TRUE])
     /\ modalResolve["host"] = {}

(***************************************************************************)
(* C12: the history of a ContextManager never holds more than              *)
(* maxHistorySize = 10 snapshots, whatever methods were called and         *)
(* whatever updates of the peer were applied.                              *)
(***************************************************************************)
C12_HistoryBounded ==
  \A m \in Peers : Len(contextHistory[m]) <= maxHistorySize

\* more than ten snapshots were appended and ten are held
C12_Witness ==
  \E m \in Peers :
     Len(appended[m]) > maxHistorySize /\ Len(contextHistory[m]) = maxHistorySize

(***************************************************************************)
(* C13: the history is the sequence of the snapshots appended, in the      *)
(* order in which they were appended, without the oldest ones that had to  *)
(* leave for it to hold at most ten: after n > 10 updates it holds the ten *)
(* appended last, oldest first.                                            *)
(***************************************************************************)
C13_HistoryFifo ==
  \A m \in Peers :
     LET n == Len(appended[m])
     IN contextHistory[m] =
          IF n > maxHistorySize THEN SubSeq(appended[m], n - maxHistorySize + 1, n)
          ELSE appended[m]

\* eleven snapshots or more were appended, each different from the others,
\* and a method was called after the sequential updates
C13_Witness ==
  \E m \in Peers :
     /\ Len(appended[m]) > maxHistorySize
     /\ \A i, j \in 1..Len(appended[m]) : i # j => appended[m][i] # appended[m][j]
     /\ contextHistory[m][1] = appended[m][Len(appended[m]) - maxHistorySize + 1]
     /\ ops > 0

(***************************************************************************)
(* C21: an inbound envelope of the authorized origin that lacks one of the *)
(* fields id, type, action, timestamp, source, or whose source is neither  *)
(* 'host' nor 'iframe', is dropped: the messenger invokes no handler,      *)
(* settles no promise, keeps its pending table and timeouts, and posts     *)
(* nothing.                                                                *)
(***************************************************************************)
WellFormed(payload) ==
  /\ {"id", "type", "action", "timestamp", "source"} \subseteq DOMAIN payload
  /\ payload.source \in {"host", "iframe"}

C23_CloseRemovesGuest ==
  [][\A ev \in channel :
       HostHandles(ev, "handleModalClose") =>
          \A i \in 1..Len(modalStack') : modalStack'[i] # ContextId("host")]_vars

(***************************************************************************)
(* C24: with a single open handled by the host, the reply the close        *)
(* causes fulfils the promise of the open with the result of the close,    *)
(* whenever the close comes.                                               *)
(***************************************************************************)
C24_OpenResolvesWithCloseResult ==
  [][\A ev \in channel :
       (/\ Dispatched(ev) /\ Accepts("guest", ev) /\ IsResponse(ev.payload)
        /\ Cardinality({c \in calls : c.handler = "handleModalOpen"}) = 1) =>
          promise'[ev.payload.responseId] = Resolve(Pending, ev.payload.data)]_vars

(***************************************************************************)
(* C25: the reply dispatched to a messenger that has the request of its    *)
(* responseId pending fulfils the promise of that request with the data of *)
(* the reply, and leaves every other promise, pending entry and timeout of *)
(* the messenger as it was, in whatever order the replies are dispatched.  *)
(***************************************************************************)
C25_RepliesCorrelatedById ==
  [][\A ev \in channel, m \in Messengers :
       (/\ Dispatched(ev) /\ Accepts(m, ev) /\ IsResponse(ev.payload)
        /\ ev.payload.responseId \in pendingMessages[m]) =>
          /\ promise'[ev.payload.responseId] = Resolve(Pending, ev.payload.data)
          /\ \A i \in DOMAIN promise \ {ev.payload.responseId} : promise'[i] = promise[i]
          /\ pendingMessages'[m] = pendingMessages[m] \ {ev.payload.responseId}
          /\ timers'[m] = timers[m] \ {ev.payload.responseId}]_vars

\* two requests of one messenger were pending together; the reply to the
\* later one was dispatched first and has fulfilled it with the result of
\* the handler, the earlier one is pending and its reply, the 'no handler'
\* error, is in transit
C25_Witness ==
  \E i, j \in DOMAIN promise :
     /\ i < j /\ sender[i] = sender[j]
     /\ promise[j] = Resolve(Pending, Result("h1"))
     /\ promise[i] = Pending /\ i \in pendingMessages[sender[i]]
     /\ \E ev \in channel :
           /\ IsResponse(ev.payload) /\ ev.payload.responseId = i
           /\ ev.payload.data = NoHandlerError

(***************************************************************************)
(* C26: an envelope is transmitted once at most: every message event that  *)
(* enters the channel carries an id that generateId has not handed out     *)
(* before the step, no two events that enter it together carry the same    *)
(* id, and the step in which a timeout fires, a reply is dispatched or a   *)
(* send fails for want of a target transmits no request, whatever          *)
(* maxRetries is.                                                          *)
(***************************************************************************)
C26_NoAutomaticRetry ==
  [][/\ \A e \in channel' \ channel : e.payload.id >= nextId
     /\ \A e1, e2 \in channel' \ channel : e1.payload.id = e2.payload.id => e1 = e2
     /\ \A i \in DOMAIN promise' :
          (/\ promise'[i].state = "rejected"
           /\ (i \in DOMAIN promise => promise[i] = Pending)) =>
              channel' \subseteq channel
     /\ \A ev \in channel :
          (Dispatched(ev) /\ IsResponse(ev.payload)) => channel' \subseteq channel]_vars

\* with maxRetries = 3, one request has timed out and another was answered
\* with the 'no handler' error; neither is in the channel again
C26_Witness ==
  \E i, j \in DOMAIN promise :
     /\ sender[i] = sender[j] /\ config[sender[i]].maxRetries = 3
     /\ settled[i] = <<"timeout">>
     /\ promise[j] = Resolve(Pending, NoHandlerError)
     /\ \A e \in channel : e.payload.id \notin {i, j}

(***************************************************************************)
(* C27: a send with requiresResponse=false posts one envelope when the     *)
(* messenger has a target window, leaves the pending table and the         *)
(* timeouts as they were, and its promise is settled when send returns:    *)
(* fulfilled with undefined, without any inbound envelope.                 *)
(***************************************************************************)
C27_FireAndForget ==
  [][\A m \in Peers, type \in Types, action \in Actions, data \in DataValues :
       Send(m, type, action, data, FALSE) =>
          /\ pendingMessages' = pendingMessages
          /\ timers' = timers
          /\ promise'[nextId] # Pending
          /\ TargetAvailable(m) =>
                /\ promise'[nextId] = Resolve(Pending, Undefined)
                /\ \E e \in channel' :
                      /\ channel' \ channel = {e}
                      /\ e.payload.id = nextId
                      /\ ~e.payload.requiresResponse
          /\ ~TargetAvailable(m) => channel' = channel]_vars

\* the promise of a send without response is fulfilled while its envelope
\* is still in transit, and the sender has nothing pending
C27_Witness ==
  \E i \in DOMAIN promise :
     /\ promise[i] = Resolve(Pending, Undefined)
     /\ settled[i] = <<"return">>
     /\ pendingMessages[sender[i]] = {} /\ timers[sender[i]] = {}
     /\ \E e \in channel : e.payload.id = i /\ ~e.payload.requiresResponse

(***************************************************************************)
(* C28: on(type, handler) and onAction(type, action, handler) leave the    *)
(* given handler under their key, in place of the one the key had, and the *)
(* other keys as they were; an inbound request then invokes one handler,   *)
(* once: the one the map holds under the selected key.                     *)
(***************************************************************************)
Registers(m, key, handler) ==
  /\ DOMAIN messageHandlers'[m] = DOMAIN messageHandlers[m] \cup {key}
  /\ messageHandlers'[m][key] = handler
  /\ \A k \in DOMAIN messageHandlers[m] \ {key} :
        messageHandlers'[m][k] = messageHandlers[m][k]

C28_ReRegistrationReplaces ==
  [][/\ \A m \in Peers, type \in Types, action \in Actions, handler \in Handlers :
          /\ On(m, type, handler) => Registers(m, type, handler)
          /\ OnAction(m, type, action, handler) =>
                Registers(m, type \o ":" \o action, handler)
     /\ \A ev \in channel, m \in Peers :
          (Dispatched(ev) /\ Accepts(m, ev) /\ ~IsResponse(ev.payload)) =>
             /\ Cardinality(NewCalls(m)) <= 1
             /\ \A c \in NewCalls(m) :
                   /\ c \notin calls
                   /\ c.message = ev.payload.id
                   /\ c.handler = messageHandlers[m][c.key]]_vars

\* the host, constructed with h1 under data:request, has registered h2
\* under that key, and a request was answered by h2, invoked once
C28_Witness ==
  \E c \in calls :
     /\ c.messenger = "host"
     /\ c.key = "data:request" /\ c.handler = "h2"
     /\ c.registered = {"data:request"}
     /\ Cardinality({d \in calls : d.message = c.message}) = 1
     /\ \E i \in DOMAIN promise : promise[i] = Resolve(Pending, Result("h2"))

(***************************************************************************)
(* C29: restoreFromHistory(index) returns true exactly when                *)
(* 0 <= index < length of the history; when it returns false, the          *)
(* Contexts and the histories are as they were and nothing is posted.      *)
(***************************************************************************)
C29_RestoreChecksIndex ==
  [][\A m \in Peers, index \in (0 - 1)..maxHistorySize :
       RestoreFromHistory(m, index) =>
          /\ Restored(m, index) <=> (0 <= index /\ index < Len(contextHistory[m]))
          /\ ~(0 <= index /\ index < Len(contextHistory[m])) =>
                /\ context' = context
                /\ contextHistory' = contextHistory
                /\ channel' = channel
                /\ nextId' = nextId]_vars

\* after the sequential updates of one ContextManager, the one method call
\* of the run has changed no Context and sent nothing: it was a
\* restoreFromHistory that returned false
C29_Witness ==
  \E m \in Peers :
     /\ ops = 1 /\ nextId = 1 /\ channel = {}
     /\ "metadata" \in DOMAIN context[m]
     /\ context[m].metadata.step = Len(appended[m])
     /\ \A p \in Peers \ {m} : appended[p] = <<>> /\ context[p] = InitialContext(p)

(***************************************************************************)
(* C30: after restoreFromHistory(index) with a valid index, the Context    *)
(* has the top-level keys of the snapshot at that index and no others,     *)
(* with the values of the snapshot under every key but updatedAt, and the  *)
(* newest entry of the history is the Context as it was before.            *)
(***************************************************************************)
C30_RestoreEqualsSnapshot ==
  [][\A m \in Peers, index \in 0..(maxHistorySize - 1) :
       (index < Len(contextHistory[m]) /\ RestoreFromHistory(m, index)) =>
          LET snapshot == contextHistory[m][index + 1]
          IN /\ DOMAIN context'[m] = DOMAIN snapshot
             /\ \A k \in DOMAIN snapshot \ {"updatedAt"} : context'[m][k] = snapshot[k]
             /\ contextHistory'[m][Len(contextHistory'[m])] = context[m]]_vars

(***************************************************************************)
(* C31: navigate(route, params, state) leaves navigation.previousRoute at  *)
(* the currentRoute held before the call, currentRoute at route, params    *)
(* and state at the given values and every other field of navigation       *)
(* (query, breadcrumbs) as it was, and transmits exactly one navigation    *)
(* envelope: a navigate_to that requires no response and carries route and *)
(* that previousRoute.                                                     *)
(***************************************************************************)
C31_Navigate ==
  [][\A c \in NavigateCalls :
       Navigate("guest", c.route, c.params, c.state) =>
          LET before == context["guest"].navigation
              after == context'["guest"].navigation
              set == {"previousRoute", "currentRoute", "params", "state"}
              sent == {e \in NewPosts("guest") : e.payload.type = "navigation"}
          IN /\ DOMAIN after = DOMAIN before \cup set
             /\ after.previousRoute = before.currentRoute
             /\ after.currentRoute = c.route
             /\ after.params = c.params
             /\ after.state = c.state
             /\ \A k \in DOMAIN before \ set : after[k] = before[k]
             /\ \E e \in sent :
                   /\ sent = {e}
                   /\ e.payload.action = "navigate_to"
                   /\ ~RequiresResponse(e.payload)
                   /\ e.payload.data.route = c.route
                   /\ e.payload.data.previousRoute = before.currentRoute]_vars

\* a first breadcrumb, then /detail with params and state: the trail is
\* kept, and the navigate_to of the call is in transit
C31_Witness ==
  /\ ops = 2
  /\ context["guest"].navigation.currentRoute = "/detail"
  /\ context["guest"].navigation.previousRoute = "/"
  /\ context["guest"].navigation.params = [id |-> 7]
  /\ Len(Trail(context["guest"])) = 1
  /\ \E ev \in channel :
        /\ ev.to = "hostWin"
        /\ ev.payload.type = "navigation" /\ ev.payload.action = "navigate_to"
        /\ ev.payload.data.route = "/detail"
        /\ ev.payload.data.previousRoute = "/"

(***************************************************************************)
(* C32: goBack() navigates to the previousRoute held before the call, or   *)
(* to '/' when none is recorded, and transmits two navigation envelopes:   *)
(* the navigate_to of that navigation first, then a go_back, both with     *)
(* that route.                                                             *)
(***************************************************************************)
C32_GoBack ==
  [][GoBack("guest") =>
       LET before == context["guest"].navigation
           route == IF "previousRoute" \in DOMAIN before THEN before.previousRoute ELSE "/"
           sent == {e \in NewPosts("guest") : e.payload.type = "navigation"}
       IN /\ context'["guest"].navigation.currentRoute = route
          /\ context'["guest"].navigation.previousRoute = before.currentRoute
          /\ \E e1, e2 \in sent :
                /\ sent = {e1, e2}
                /\ e1.payload.action = "navigate_to" /\ e1.payload.data.route = route
                /\ e2.payload.action = "go_back" /\ e2.payload.data = [route |-> route]
                /\ e1.payload.id < e2.payload.id]_vars

\* /list, /detail, goBack: the guest is back on /list, and the go_back
\* that names /list is in transit behind the navigate_to
C32_Witness ==
  /\ ops = 3
  /\ context["guest"].navigation.currentRoute = "/list"
  /\ context["guest"].navigation.previousRoute = "/detail"
  /\ \E e1, e2 \in channel :
        /\ e1.payload.type = "navigation" /\ e1.payload.action = "navigate_to"
        /\ e2.payload.type = "navigation" /\ e2.payload.action = "go_back"
        /\ e2.payload.data.route = "/list"
        /\ e1.payload.id < e2.payload.id

(***************************************************************************)
(* C33: every step in which a ContextManager appends a snapshot to its     *)
(* history appends the Context exactly as it was before the operation      *)
(* began; for addBreadcrumb that is the Context with the breadcrumb trail  *)
(* as it was before the call.                                              *)
(***************************************************************************)
C33_SnapshotBeforeMutation ==
  [][\A m \in Peers :
       Len(appended'[m]) > Len(appended[m]) =>
          appended'[m][Len(appended'[m])] = context[m]]_vars

(***************************************************************************)
(* C34: once the applications make no further call of updateContext, the   *)
(* exchange of state/update envelopes ends: over a whole run the           *)
(* messengers make at most two calls of send() per call of updateContext   *)
(* (the update, and the echo of the guest when the host sent it), and a    *)
(* state with no envelope in flight is reached and kept.                   *)
(***************************************************************************)
C34_NoInfiniteEcho == [](nextId - 1 <= 2 * ops) /\ <>[](channel = {})

\* one updateContext of the host: the guest has applied it and echoed it,
\* the host has applied the echo without answering, nothing is in flight
C34_Witness ==
  /\ ops = 1
  /\ nextId = 3
  /\ channel = {}
  /\ sender = [i \in {1, 2} |-> IF i = 1 THEN "host" ELSE "guest"]
  /\ contextHistory["host"] # <<>> /\ Len(contextHistory["host"]) = 2

(***************************************************************************)
(* C35: the pending table and the running timeouts of a messenger hold     *)
(* only ids of envelopes that were transmitted: a request whose send       *)
(* failed because there was no target window has no pending entry and no   *)
(* timeout once the send has failed.                                       *)
(***************************************************************************)
C35_PendingOnlyTransmitted ==
  \A m \in Messengers : \A i \in pendingMessages[m] \cup timers[m] :
     settled[i] = <<>> \/ Head(settled[i]) # "throw"

(***************************************************************************)
(* C36: in every state of the host the id of the guest is on the modal     *)
(* stack exactly when the resolution slot of its iframe holds the resolve  *)
(* function of an open that is not yet resolved, and no id is on the stack *)
(* twice.                                                                  *)
(***************************************************************************)
C36_ModalStackConsistent ==
  /\ (\E i \in 1..Len(modalStack) : modalStack[i] = ContextId("host")) <=> modalResolve["host"] # {}
  /\ \A i, j \in 1..Len(modalStack) : modalStack[i] = modalStack[j] => i = j

(***************************************************************************)
(* C37: when the reply to the state/request of a syncContext() is the 'no  *)
(* handler' error payload of the peer, the step that settles the request   *)
(* leaves the Context of that ContextManager as it was: no key of the      *)
(* error payload is merged and updatedAt keeps its value.                  *)
(***************************************************************************)
C37_NoHandlerReplyNotMerged ==
  [][\A ev \in channel, m \in Peers :
       (/\ Dispatched(ev)
        /\ IsResponse(ev.payload)
        /\ m \in Settlers(ev)
        /\ ev.payload.responseId \in syncing[m]
        /\ ev.payload.data = NoHandlerError) => context'[m] = context[m]]_vars

(***************************************************************************)
(* C38: when the handler invoked for a request that requires a response    *)
(* fails, the receiver posts no reply to that request in that step, and    *)
(* the promise of the sender is settled all the same, by its timeout and   *)
(* by nothing else.                                                        *)
(***************************************************************************)
HandlerFailed(i) == \E c \in calls : c.message = i /\ c.handler = "failing"

C38_FailedHandlerNoReply ==
  /\ [][\A ev \in channel, m \in Peers :
          (Dispatched(ev) /\ m \in Invokers(ev) /\ RequiresResponse(ev.payload)
             /\ messageHandlers[m][SelectedKey(m, ev.payload)] = "failing") =>
                NewReplies(ev.payload.id) = {}]_vars
  /\ [](\A i \in DOMAIN settled :
          (HandlerFailed(i) /\ settled[i] # <<>>) => settled[i] = <<"timeout">>)
  /\ \A i \in 1..(2 * MaxFairSends) :
        []((i \in DOMAIN settled /\ HandlerFailed(i)) =>
              <>(i \in DOMAIN settled /\ settled[i] = <<"timeout">>))

\* the failing handler of the host was invoked for the request of the
\* guest, which has timed out; nothing is in flight
C38_Witness ==
  \E i \in DOMAIN settled :
     /\ HandlerFailed(i)
     /\ sender[i] = "guest"
     /\ TargetAvailable("host")
     /\ settled[i] = <<"timeout">>
     /\ channel = {}

(***************************************************************************)
(* C39: with two guests g1 and g2 of the same origin, the envelopes g1     *)
(* sends reach only the host messenger bound to g1: no handler of the      *)
(* messenger bound to g2 is invoked, the Context the host keeps for g2     *)
(* stays as constructed and g2 is never pushed onto the modal stack. (The  *)
(* document of g2 sends nothing in this specification.)                    *)
(***************************************************************************)
C39_GuestIsolation ==
  /\ \A c \in calls : c.messenger # "host2"
  /\ context["host2"] = InitialContext("host2")
  /\ \A i \in 1..Len(modalStack) : modalStack[i] # ContextId("host2")

====
